---- MODULE Spec2Model ----
(***************************************************************************)
(* Hero Squad Optimizer: the encounter-outcome estimation engine behind    *)
(* POST /api/analyze, in the five revisions the repository holds:          *)
(*   "part001"  src/unnamed/part_001   unweighted average (earliest)       *)
(*   "part003"  src/unnamed/part_003   weighted sum        (Strategy A)    *)
(*   "page"     src/app/page.tsx       Monte Carlo         (Strategy B)    *)
(*   "route"    src/app/api/analyze/route.ts  Naive Bayes  (Strategy C)    *)
(*   "part002"  src/unnamed/part_002   external TFJS model                 *)
(* Real numbers are exact rationals <<num, den>> with den > 0; the one     *)
(* non-number a handler can compute, NaN (0/0), is a value of its own.     *)
(* Weights are kept in tenths and multipliers in hundredths.               *)
(***************************************************************************)
EXTENDS Integers, Sequences, FiniteSets, TLC

VARIABLES model, pc, req, pending, resp, steps, trial

vars == <<model, pc, req, pending, resp, steps, trial>>

-----------------------------------------------------------------------------
(* Bounds of the model                                                     *)

MaxParty == 2

-----------------------------------------------------------------------------
(* JavaScript numbers                                                      *)

\* The result of 0/0; every comparison with it is false.
NaN == -1000000

IsNaN(x) == x = NaN

\* a < b and a > b as JavaScript evaluates them (false when either is NaN)
JsLt(a, b) == ~IsNaN(a) /\ ~IsNaN(b) /\ a < b

JsGt(a, b) == ~IsNaN(a) /\ ~IsNaN(b) /\ a > b

\* Math.round of the rational num/den (den > 0): the nearest integer, a half
\* going up. The code rounds an IEEE double, which can lie just below a value
\* that is an exact half here (48.49999999999986 for 48.5), so that on an
\* exact tie the code may report one less than this operator. Both outcomes
\* are followed for the Naive Bayes estimate (bayesOutcomes), whose ties depend
\* on the order of the party.
MathRound(num, den) == (2 * num + den) \div (2 * den)

\* Math.floor of the rational num/den (den > 0)
MathFloor(num, den) == num \div den

\* Faulty variant of Clamp: Math.max(lo, num/den), the ceiling forgotten
ClampWithoutCeiling(num, den, lo, hi) ==
    IF num < lo * den THEN lo * den ELSE num

\* Math.min(hi, Math.max(lo, num/den)), as a numerator over the same den
Clamp(num, den, lo, hi) ==
    IF num < lo * den THEN lo * den
    ELSE IF num > hi * den THEN hi * den
    ELSE num

\* (c[stat] || 0): an absent stat, like a stat of 0, reads as 0
Opt(c, stat) == IF stat \in DOMAIN c THEN c[stat] ELSE 0

RECURSIVE SumSeq(_)
SumSeq(s) == IF s = <<>> THEN 0 ELSE Head(s) + SumSeq(Tail(s))

\* party.reduce((sum, char) => sum + (char[stat] || 0), 0)
Total(party, stat) == SumSeq([i \in 1..Len(party) |-> Opt(party[i], stat)])

-----------------------------------------------------------------------------
(* Tables shared by part_003, page.tsx, route.ts and part_002              *)

EventTypes == {"Dragon Fight", "Ancient Trap", "Mystic Puzzle", "Haunted Crypt"}

Stats == <<"strength", "agility", "health", "mana", "dexterity", "wisdom">>

StatSet == {Stats[i] : i \in 1..Len(Stats)}

\* getStatWeights, in tenths
getStatWeights(eventType) ==
    CASE eventType = "Dragon Fight" ->
           [strength |-> 13, health |-> 12, agility |-> 11,
            mana |-> 11, dexterity |-> 10, wisdom |-> 9]
      [] eventType = "Ancient Trap" ->
           [dexterity |-> 14, agility |-> 13, wisdom |-> 12,
            health |-> 10, mana |-> 9, strength |-> 8]
      [] eventType = "Mystic Puzzle" ->
           [wisdom |-> 15, mana |-> 13, dexterity |-> 10,
            agility |-> 9, health |-> 8, strength |-> 7]
      [] OTHER ->
           [strength |-> 10, agility |-> 10, health |-> 10,
            mana |-> 10, dexterity |-> 10, wisdom |-> 10]

\* Object.values(weights).reduce((sum, weight) => sum + weight, 0), in tenths
totalWeight(weights) == SumSeq([i \in 1..Len(Stats) |-> weights[Stats[i]]])

\* Faulty variant of getDifficultyMultiplier: the default case returns 1.0
getDifficultyMultiplierDefaultOne(eventType) ==
    CASE eventType = "Dragon Fight" -> 85
      [] eventType = "Ancient Trap" -> 90
      [] OTHER -> 100

\* getDifficultyMultiplier, in hundredths
getDifficultyMultiplier(eventType) ==
    CASE eventType = "Dragon Fight" -> 85
      [] eventType = "Ancient Trap" -> 90
      [] eventType = "Mystic Puzzle" -> 100
      [] OTHER -> 95

getEncounterDifficulty(eventType) ==
    CASE eventType = "Dragon Fight" -> "Hard"
      [] eventType = "Ancient Trap" -> "Medium"
      [] eventType = "Mystic Puzzle" -> "Easy"
      [] OTHER -> "Unknown"

\* charTotalWeighted of getWeightedAnalysis, in tenths
charTotalWeighted(character, weights) ==
    character.strength * weights.strength
    + character.agility * weights.agility
    + character.health * weights.health
    + Opt(character, "mana") * weights.mana
    + Opt(character, "dexterity") * weights.dexterity
    + Opt(character, "wisdom") * weights.wisdom

\* Faulty variant of charSuccessRate: the divisor 20 of the party formula
\* used in place of 15
charSuccessRateOver20(character, eventType) ==
    LET weights == getStatWeights(eventType)
        den == totalWeight(weights) * 20 * 100
        num == 20 * den
               + charTotalWeighted(character, weights) * 75
                 * getDifficultyMultiplier(eventType)
    IN  MathRound(Clamp(num, den, 15, 95), den)

\* Faulty variant of charSuccessRate: the base of 20 taken as 10
charSuccessRateBaseTen(character, eventType) ==
    LET weights == getStatWeights(eventType)
        den == totalWeight(weights) * 15 * 100
        num == 10 * den
               + charTotalWeighted(character, weights) * 75
                 * getDifficultyMultiplier(eventType)
    IN  MathRound(Clamp(num, den, 15, 95), den)

\* success_rate of one character:
\*   charBaseRate = charTotalWeighted / (totalWeight * 15)
\*   round(min(95, max(15, 20 + charBaseRate * 75 * difficultyMultiplier)))
charSuccessRate(character, eventType) ==
    LET weights == getStatWeights(eventType)
        tw == totalWeight(weights)
        dm == getDifficultyMultiplier(eventType)
        den == tw * 15 * 100
        num == 20 * den + charTotalWeighted(character, weights) * 75 * dm
    IN  MathRound(Clamp(num, den, 15, 95), den)

\* Faulty variant of getRecommendedAction: the Dragon Fight test on strength
\* is >= 15
getRecommendedActionInclusive(character, eventType) ==
    LET str == character.strength
        agi == character.agility
        dex == Opt(character, "dexterity")
        wis == Opt(character, "wisdom")
        mana == Opt(character, "mana")
    IN  CASE eventType = "Dragon Fight" ->
               IF str >= 15 THEN "Power Attack"
               ELSE IF mana > 15 THEN "Cast Fireball"
               ELSE IF agi > 15 THEN "Dodge and Weave"
               ELSE "Defensive Stance"
          [] eventType = "Ancient Trap" ->
               IF dex > 15 THEN "Disarm Trap"
               ELSE IF wis > 15 THEN "Analyze Mechanism"
               ELSE IF agi > 15 THEN "Evade Pressure Plate"
               ELSE "Provide Lookout"
          [] eventType = "Mystic Puzzle" ->
               IF wis > 15 THEN "Decipher Runes"
               ELSE IF mana > 15 THEN "Channel Insight"
               ELSE IF dex > 10 THEN "Manipulate Artifact"
               ELSE "Observe Patterns"
          [] OTHER -> "Take Action"

getRecommendedAction(character, eventType) ==
    LET str == character.strength
        agi == character.agility
        dex == Opt(character, "dexterity")
        wis == Opt(character, "wisdom")
        mana == Opt(character, "mana")
    IN  CASE eventType = "Dragon Fight" ->
               IF str > 15 THEN "Power Attack"
               ELSE IF mana > 15 THEN "Cast Fireball"
               ELSE IF agi > 15 THEN "Dodge and Weave"
               ELSE "Defensive Stance"
          [] eventType = "Ancient Trap" ->
               IF dex > 15 THEN "Disarm Trap"
               ELSE IF wis > 15 THEN "Analyze Mechanism"
               ELSE IF agi > 15 THEN "Evade Pressure Plate"
               ELSE "Provide Lookout"
          [] eventType = "Mystic Puzzle" ->
               IF wis > 15 THEN "Decipher Runes"
               ELSE IF mana > 15 THEN "Channel Insight"
               ELSE IF dex > 10 THEN "Manipulate Artifact"
               ELSE "Observe Patterns"
          [] OTHER -> "Take Action"

\* Faulty variant of individualRates: the entries listed last character first
individualRatesReversed(party, eventType) ==
    [i \in 1..Len(party) |->
        [character |-> party[Len(party) + 1 - i].name,
         success_rate |-> charSuccessRate(party[Len(party) + 1 - i], eventType),
         recommended_action |->
             getRecommendedAction(party[Len(party) + 1 - i], eventType)]]

\* party.map(...) of getWeightedAnalysis: one entry per character, in order
individualRates(party, eventType) ==
    [i \in 1..Len(party) |->
        [character |-> party[i].name,
         success_rate |-> charSuccessRate(party[i], eventType),
         recommended_action |-> getRecommendedAction(party[i], eventType)]]

\* party.reduce((best, char) => (char[stat] || 0) > (best[stat] || 0) ? char : best)
\* for a non-empty party: the index of the element returned. (On an empty
\* party reduce without an initial value throws a TypeError.)
RECURSIVE findBestFrom(_, _, _, _)
findBestFrom(party, stat, best, i) ==
    IF i > Len(party) THEN best
    ELSE findBestFrom(party, stat,
                      IF Opt(party[i], stat) > Opt(party[best], stat) THEN i ELSE best,
                      i + 1)

\* findBest replacing the best on a tie as well (>= for >): the last of the
\* members with the highest value
findBestLast(party, stat) ==
    CHOOSE i \in 1..Len(party) :
        /\ \A j \in 1..Len(party) : Opt(party[j], stat) <= Opt(party[i], stat)
        /\ \A j \in (i + 1)..Len(party) : Opt(party[j], stat) < Opt(party[i], stat)

findBest(party, stat) == findBestFrom(party, stat, 1, 2)

\* toneSentence with the lower threshold inclusive
toneSentenceInclusive(successChance) ==
    IF ~IsNaN(successChance) /\ successChance <= 40 THEN <<"tone", "caution">>
    ELSE IF JsGt(successChance, 75) THEN <<"tone", "advantage">>
    ELSE <<"tone", "balanced">>

\* The tone sentence of generateRecommendations (the three sentences of
\* part_003 and of route.ts differ in wording, not in their thresholds).
toneSentence(successChance) ==
    IF JsLt(successChance, 40) THEN <<"tone", "caution">>
    ELSE IF JsGt(successChance, 75) THEN <<"tone", "advantage">>
    ELSE <<"tone", "balanced">>

\* Whether generateRecommendations throws: findBest on an empty party
generateRecommendationsThrows(party, eventType) ==
    Len(party) = 0 /\ eventType \in {"Dragon Fight", "Ancient Trap", "Mystic Puzzle"}

\* generateRecommendations with a default case that adds a general sentence
\* for an event type it does not know
generateRecommendationsWithDefault(party, eventType, successChance) ==
    <<toneSentence(successChance)>> \o
    CASE eventType = "Dragon Fight" ->
           <<<<"tank", party[findBest(party, "health")].name>>,
             <<"damage dealer", party[findBest(party, "strength")].name>>>>
      [] eventType = "Ancient Trap" ->
           LET nimble == party[findBest(party, "dexterity")]
               wiseTrap == party[findBest(party, "wisdom")]
           IN  <<<<"lead", nimble.name>>>> \o
               (IF wiseTrap.name # nimble.name
                THEN <<<<"support", wiseTrap.name>>>> ELSE <<>>)
      [] eventType = "Mystic Puzzle" ->
           LET wise == party[findBest(party, "wisdom")]
               mage == party[findBest(party, "mana")]
           IN  <<<<"puzzle solver", wise.name>>>> \o
               (IF mage.name # wise.name
                THEN <<<<"clue-finder", mage.name>>>> ELSE <<>>)
      [] OTHER -> <<<<"general", "Stay close together">>>>

\* generateRecommendations, each sentence as <<kind, name>>
generateRecommendations(party, eventType, successChance) ==
    <<toneSentence(successChance)>> \o
    CASE eventType = "Dragon Fight" ->
           <<<<"tank", party[findBest(party, "health")].name>>,
             <<"damage dealer", party[findBest(party, "strength")].name>>>>
      [] eventType = "Ancient Trap" ->
           LET nimble == party[findBest(party, "dexterity")]
               wiseTrap == party[findBest(party, "wisdom")]
           IN  <<<<"lead", nimble.name>>>> \o
               (IF wiseTrap.name # nimble.name
                THEN <<<<"support", wiseTrap.name>>>> ELSE <<>>)
      [] eventType = "Mystic Puzzle" ->
           LET wise == party[findBest(party, "wisdom")]
               mage == party[findBest(party, "mana")]
           IN  <<<<"puzzle solver", wise.name>>>> \o
               (IF mage.name # wise.name
                THEN <<<<"clue-finder", mage.name>>>> ELSE <<>>)
      [] OTHER -> <<>>

\* analysisResult with the estimate scaled by the difficulty multiplier
analysisResultScaled(party, eventType, chance) ==
    [party_success_chance |-> MathRound(chance * getDifficultyMultiplier(eventType), 100),
     individual_success_rates |-> individualRates(party, eventType),
     encounter_difficulty |-> getEncounterDifficulty(eventType),
     strategic_recommendations |-> generateRecommendations(party, eventType, chance)]

\* The AnalysisResult the four later revisions assemble from an estimate
analysisResult(party, eventType, chance) ==
    [party_success_chance |-> chance,
     individual_success_rates |-> individualRates(party, eventType),
     encounter_difficulty |-> getEncounterDifficulty(eventType),
     strategic_recommendations |-> generateRecommendations(party, eventType, chance)]

-----------------------------------------------------------------------------
(* part_003: the weighted-sum estimator (Strategy A)                       *)

\* totalWeightedPower, in tenths
totalWeightedPower(party, weights) ==
    SumSeq([i \in 1..Len(party) |-> charTotalWeighted(party[i], weights)])

\* baseSuccessRate = min(95, max(15, totalWeightedPower / (partySize * totalWeight * 20) * 100))
\* partySuccessChance = round(baseSuccessRate * difficultyMultiplier)
\* An empty party divides 0 by 0: NaN passes through min, max and round.
weightedSuccessChanceWith(party, eventType, difficultyMultiplier) ==
    LET weights == getStatWeights(eventType)
        partySize == Len(party)
        den == partySize * totalWeight(weights) * 20
        num == totalWeightedPower(party, weights) * 100
    IN  IF partySize = 0 THEN NaN
        ELSE MathRound(Clamp(num, den, 15, 95) * difficultyMultiplier, den * 100)

\* partySuccessChance with difficultyMultiplier = getDifficultyMultiplier(event_type)
weightedSuccessChance(party, eventType) ==
    weightedSuccessChanceWith(party, eventType, getDifficultyMultiplier(eventType))

\* analyzePartyVsEncounter of part_003; currentCharacter is a parameter the
\* body never reads.
analyzePart003(party, encounter, currentCharacter) ==
    analysisResult(party, encounter.event_type,
                   weightedSuccessChance(party, encounter.event_type))

-----------------------------------------------------------------------------
(* part_001: the earliest revision, with its own tables                    *)

\* getDifficultyMultiplier of part_001, in hundredths
legacyDifficultyMultiplier(eventType) ==
    CASE eventType = "Dragon Fight" -> 60
      [] eventType = "Ancient Trap" -> 80
      [] eventType = "Mystic Puzzle" -> 100
      [] OTHER -> 80

legacyEncounterDifficulty(eventType) ==
    CASE eventType = "Dragon Fight" -> "Extremely Dangerous"
      [] eventType = "Ancient Trap" -> "Moderately Challenging"
      [] eventType = "Mystic Puzzle" -> "Intellectually Demanding"
      [] OTHER -> "Unknown"

\* charTotal = strength + agility + health + (mana || 0)
legacyCharTotal(character) ==
    character.strength + character.agility + character.health + Opt(character, "mana")

\* baseSuccessRate = min(95, max(15, (total / (partySize * 4)) * 1.2))
\* partySuccessChance = round(baseSuccessRate * difficultyMultiplier)
legacySuccessChance(party, eventType) ==
    LET partySize == Len(party)
        den == partySize * 4 * 10
        num == SumSeq([i \in 1..partySize |-> legacyCharTotal(party[i])]) * 12
    IN  IF partySize = 0 THEN NaN
        ELSE MathRound(Clamp(num, den, 15, 95) * legacyDifficultyMultiplier(eventType),
                       den * 100)

\* round(min(90, max(10, (charTotal / 4) * difficultyMultiplier)))
legacyCharSuccessRate(character, eventType) ==
    LET den == 4 * 100
        num == legacyCharTotal(character) * legacyDifficultyMultiplier(eventType)
    IN  MathRound(Clamp(num, den, 10, 90), den)

legacyRecommendedAction(character, eventType) ==
    LET type == character.type
        strength == character.strength
        agility == character.agility
        mana == Opt(character, "mana")
        wisdom == Opt(character, "wisdom")
    IN  CASE eventType = "Dragon Fight" ->
               IF type = "Mage" /\ mana > 50 THEN "Cast Fireball"
               ELSE IF type = "Barbarian" /\ strength > 60 THEN "Berserker Rage"
               ELSE IF type = "Rogue" /\ agility > 50 THEN "Sneak Attack"
               ELSE IF type = "Bandit" /\ agility > 40 THEN "Poison Dart"
               ELSE "Defensive Stance"
          [] eventType = "Ancient Trap" ->
               IF type = "Rogue" /\ agility > 40 THEN "Disarm Trap"
               ELSE IF type = "Mage" /\ wisdom > 40 THEN "Detect Magic"
               ELSE IF type = "Barbarian" THEN "Trigger Safely"
               ELSE "Careful Advance"
          [] eventType = "Mystic Puzzle" ->
               IF type = "Mage" /\ wisdom > 50 THEN "Arcane Insight"
               ELSE IF wisdom > 40 THEN "Analyze Pattern"
               ELSE "Support Team"
          [] OTHER -> "Standard Attack"

\* party.filter((c) => c.type === type).length
countType(party, type) == Cardinality({i \in 1..Len(party) : party[i].type = type})

\* generateRecommendations of part_001: two sentences below 60, one from 60,
\* then one sentence per class the encounter calls for. It never throws.
legacyRecommendations(party, eventType, successChance) ==
    (IF JsLt(successChance, 30)
       THEN <<<<"tone", "retreat">>, <<"tone", "defend">>>>
     ELSE IF JsLt(successChance, 60)
       THEN <<<<"tone", "caution">>, <<"tone", "healing">>>>
     ELSE <<<<"tone", "confident">>>>) \o
    (IF eventType = "Dragon Fight" /\ countType(party, "Mage") > 0
       THEN <<<<"class", "Mages should focus on elemental damage">>>> ELSE <<>>) \o
    (IF eventType = "Dragon Fight" /\ countType(party, "Barbarian") > 0
       THEN <<<<"class", "Barbarians should tank damage and draw attention">>>> ELSE <<>>) \o
    (IF eventType = "Ancient Trap" /\ countType(party, "Rogue") > 0
       THEN <<<<"class", "Let Rogues lead - they excel at trap detection">>>> ELSE <<>>) \o
    (IF eventType = "Mystic Puzzle" /\ countType(party, "Mage") > 0
       THEN <<<<"class", "Mages should take the lead on puzzle-solving">>>> ELSE <<>>)

\* analyzePartyVsEncounter of part_001
analyzePart001(party, encounter, currentCharacter) ==
    LET eventType == encounter.event_type
        partySuccessChance == legacySuccessChance(party, eventType)
    IN  [party_success_chance |-> partySuccessChance,
         individual_success_rates |->
             [i \in 1..Len(party) |->
                 [character |-> party[i].name,
                  success_rate |-> legacyCharSuccessRate(party[i], eventType),
                  recommended_action |-> legacyRecommendedAction(party[i], eventType)]],
         encounter_difficulty |-> legacyEncounterDifficulty(eventType),
         strategic_recommendations |->
             legacyRecommendations(party, eventType, partySuccessChance)]

-----------------------------------------------------------------------------
(* Exact arithmetic for route.ts: the products of likelihoods outgrow      *)
(* machine integers, so a natural number is the sequence of its base-10000 *)
(* digits, least significant first, without leading zeros (0 is <<>>).     *)

RECURSIVE BigOf(_)
BigOf(n) == IF n = 0 THEN <<>> ELSE <<n % 10000>> \o BigOf(n \div 10000)

RECURSIVE BigTimesCarry(_, _, _)
BigTimesCarry(a, k, carry) ==
    IF a = <<>> THEN BigOf(carry)
    ELSE LET t == Head(a) * k + carry
         IN  <<t % 10000>> \o BigTimesCarry(Tail(a), k, t \div 10000)

\* a * k for a machine integer 0 <= k <= 100000
BigTimes(a, k) == IF k = 0 THEN <<>> ELSE BigTimesCarry(a, k, 0)

RECURSIVE BigAddCarry(_, _, _)
BigAddCarry(a, b, carry) ==
    IF a = <<>> /\ b = <<>> THEN BigOf(carry)
    ELSE LET x == IF a = <<>> THEN 0 ELSE Head(a)
             y == IF b = <<>> THEN 0 ELSE Head(b)
             t == x + y + carry
         IN  <<t % 10000>> \o
             BigAddCarry(IF a = <<>> THEN a ELSE Tail(a),
                         IF b = <<>> THEN b ELSE Tail(b), t \div 10000)

BigAdd(a, b) == BigAddCarry(a, b, 0)

RECURSIVE BigLessFrom(_, _, _)
BigLessFrom(a, b, i) ==
    IF i = 0 THEN FALSE
    ELSE IF a[i] # b[i] THEN a[i] < b[i]
    ELSE BigLessFrom(a, b, i - 1)

\* a < b
BigLess(a, b) ==
    IF Len(a) # Len(b) THEN Len(a) < Len(b) ELSE BigLessFrom(a, b, Len(a))

-----------------------------------------------------------------------------
(* route.ts: Naive Bayes with synergy and diminishing returns (Strategy C) *)

\* getSuccessPriors, in hundredths
getSuccessPriors(eventType) ==
    CASE eventType = "Dragon Fight" -> [success |-> 40, failure |-> 60]
      [] eventType = "Ancient Trap" -> [success |-> 55, failure |-> 45]
      [] eventType = "Mystic Puzzle" -> [success |-> 70, failure |-> 30]
      [] OTHER -> [success |-> 50, failure |-> 50]

\* One entry of the likelihood tables, in hundredths
Likelihood(sl, sm, sh, fl, fm, fh) ==
    [success |-> [low |-> sl, med |-> sm, high |-> sh],
     failure |-> [low |-> fl, med |-> fm, high |-> fh]]

\* getLikelihoods: the defaults, overridden per encounter type
getLikelihoods(eventType) ==
    LET defaults == [s \in StatSet |-> Likelihood(20, 40, 40, 40, 40, 20)]
    IN  CASE eventType = "Dragon Fight" ->
               [defaults EXCEPT !.strength = Likelihood(10, 30, 60, 60, 30, 10),
                                !.health = Likelihood(15, 35, 50, 50, 35, 15),
                                !.agility = Likelihood(20, 50, 30, 30, 50, 20)]
          [] eventType = "Ancient Trap" ->
               [defaults EXCEPT !.dexterity = Likelihood(10, 30, 60, 60, 30, 10),
                                !.agility = Likelihood(15, 35, 50, 50, 35, 15),
                                !.wisdom = Likelihood(20, 50, 30, 30, 50, 20)]
          [] eventType = "Mystic Puzzle" ->
               [defaults EXCEPT !.wisdom = Likelihood(5, 25, 70, 70, 25, 5),
                                !.mana = Likelihood(10, 40, 50, 50, 40, 10)]
          [] OTHER -> defaults

getStatCategory(value) ==
    IF value < 10 THEN "low" ELSE IF value < 20 THEN "med" ELSE "high"

\* The stat keys Object.keys(character) yields whose value is a number and
\* that the likelihood table knows: an absent stat is not among them.
NumericKeys(character) == {s \in StatSet : s \in DOMAIN character}

\* The factors (likelihood + 0.01, in hundredths) one side of the classifier
\* collects over the whole party, in party and key order; a key that is
\* skipped leaves both sides as they are (a factor of 1)
likelihoodFactors(party, eventType, side) ==
    LET likelihoods == getLikelihoods(eventType)
        n == Len(Stats)
        factor(k) ==
            LET character == party[((k - 1) \div n) + 1]
                statKey == Stats[((k - 1) % n) + 1]
            IN  IF statKey \in NumericKeys(character)
                THEN likelihoods[statKey][side][getStatCategory(character[statKey])] + 1
                ELSE 1
    IN  [k \in 1..(Len(party) * n) |-> factor(k)]

RECURSIVE BigProduct(_, _)
BigProduct(start, factors) ==
    IF factors = <<>> THEN start
    ELSE BigProduct(BigTimes(start, Head(factors)), Tail(factors))

\* runBayesianAnalysis: (probSuccess / totalProb) * 100 as the exact rational
\* [num, den]. With partySizeMultiplier m = (8 + n)/10 the priors are
\* success * m and failure / m; both sides are scaled by the same positive
\* constant, so that every factor is a whole number.
runBayesianAnalysis(party, encounter) ==
    LET basePriors == getSuccessPriors(encounter.event_type)
        m10 == 8 + Len(party)
        probSuccess ==
            BigProduct(BigOf(basePriors.success * m10 * m10),
                       likelihoodFactors(party, encounter.event_type, "success"))
        probFailure ==
            BigProduct(BigOf(basePriors.failure * 100),
                       likelihoodFactors(party, encounter.event_type, "failure"))
        totalProb == BigAdd(probSuccess, probFailure)
    IN  IF totalProb = <<>> THEN [num |-> BigOf(50), den |-> BigOf(1)]
        ELSE [num |-> BigTimes(probSuccess, 100), den |-> totalProb]

\* new Set(party.map((c) => c.type))
partyClasses(party) == {party[i].type : i \in 1..Len(party)}

\* getSynergyMultiplier with the trio bonus in place of the pair bonus, not
\* on top of it
getSynergyMultiplierExclusive(party, encounter) ==
    LET classes == partyClasses(party)
    IN  100
        + (IF "Barbarian" \in classes /\ "Mage" \in classes /\ "Rogue" \in classes
           THEN 15
           ELSE IF "Barbarian" \in classes /\ "Mage" \in classes THEN 10 ELSE 0)
        + (IF encounter.event_type = "Ancient Trap"
              /\ "Rogue" \in classes /\ "Bandit" \in classes THEN 20 ELSE 0)
        - (IF encounter.event_type = "Dragon Fight"
              /\ \A i \in 1..Len(party) : party[i].type = "Mage" THEN 25 ELSE 0)
        - (IF encounter.event_type = "Mystic Puzzle"
              /\ \A i \in 1..Len(party) : party[i].type \in {"Barbarian", "Bandit"}
           THEN 30 ELSE 0)

\* getSynergyMultiplier, in hundredths. every() of an empty party is true.
getSynergyMultiplier(party, encounter) ==
    LET classes == partyClasses(party)
    IN  100
        + (IF "Barbarian" \in classes /\ "Mage" \in classes THEN 10 ELSE 0)
        + (IF "Barbarian" \in classes /\ "Mage" \in classes /\ "Rogue" \in classes
           THEN 15 ELSE 0)
        + (IF encounter.event_type = "Ancient Trap"
              /\ "Rogue" \in classes /\ "Bandit" \in classes THEN 20 ELSE 0)
        - (IF encounter.event_type = "Dragon Fight"
              /\ \A i \in 1..Len(party) : party[i].type = "Mage" THEN 25 ELSE 0)
        - (IF encounter.event_type = "Mystic Puzzle"
              /\ \A i \in 1..Len(party) : party[i].type \in {"Barbarian", "Bandit"}
           THEN 30 ELSE 0)

\* The points over STAT_THRESHOLD = 22 that applyDiminishingReturns adds up
\* (value && value > 22: an absent stat and a stat of 0 add nothing)
pointsOverThreshold(party) ==
    SumSeq([k \in 1..(Len(party) * Len(Stats)) |->
        LET value == Opt(party[((k - 1) \div Len(Stats)) + 1],
                         Stats[((k - 1) % Len(Stats)) + 1])
        IN  IF value > 22 THEN value - 22 ELSE 0])

\* applyDiminishingReturns with the cap at 0.5 for 0.3
applyDiminishingReturnsCapHalf(chance, party) ==
    LET totalPenalty == 5 * pointsOverThreshold(party)
        keep == 1000 - (IF totalPenalty > 500 THEN 500 ELSE totalPenalty)
    IN  [num |-> BigTimes(chance.num, keep), den |-> BigTimes(chance.den, 1000)]

\* applyDiminishingReturns: chance * (1 - min(0.3, totalPenalty)), with
\* PENALTY_PER_POINT = 0.005, on a rational [num, den]
applyDiminishingReturns(chance, party) ==
    LET totalPenalty == 5 * pointsOverThreshold(party)
        keep == 1000 - (IF totalPenalty > 300 THEN 300 ELSE totalPenalty)
    IN  [num |-> BigTimes(chance.num, keep), den |-> BigTimes(chance.den, 1000)]

\* roundClamped without the floor of 5: Math.round(Math.min(95, x))
roundWithoutFloor(x) ==
    LET below == {k \in 0..94 :
                    BigLess(BigTimes(x.num, 2), BigTimes(x.den, 2 * k + 1))}
    IN  IF below = {} THEN 95
        ELSE CHOOSE k \in below : \A j \in below : k <= j

\* Math.round(Math.max(5, Math.min(95, x))) for the rational x = [num, den]:
\* the least k in 5..95 with x < k + 1/2, and 95 when there is none
roundClamped(x) ==
    LET below == {k \in 5..94 :
                    BigLess(BigTimes(x.num, 2), BigTimes(x.den, 2 * k + 1))}
    IN  IF below = {} THEN 95
        ELSE CHOOSE k \in below : \A j \in below : k <= j

\* modifiedChance of applyAdvancedModifiers before the clamp, as a rational
modifiedChance(baseChance, party, encounter) ==
    LET synergyMultiplier == getSynergyMultiplier(party, encounter)
    IN  applyDiminishingReturns([num |-> BigTimes(baseChance.num, synergyMultiplier),
                                 den |-> BigTimes(baseChance.den, 100)], party)

\* applyAdvancedModifiers, in exact arithmetic
applyAdvancedModifiers(baseChance, party, encounter) ==
    roundClamped(modifiedChance(baseChance, party, encounter))

\* analyzePartyVsEncounter of route.ts up to the estimate, in exact arithmetic
bayesSuccessChance(party, encounter) ==
    applyAdvancedModifiers(runBayesianAnalysis(party, encounter), party, encounter)

\* Whether the rational x lies exactly halfway between two integers of 5..95
halfway(x) ==
    \E k \in 5..94 : BigTimes(x.num, 2) = BigTimes(x.den, 2 * k + 1)

\* The estimates route.ts can report. runBayesianAnalysis adds Math.log terms
\* to two doubles in party order, so the double that reaches Math.round
\* differs from the exact value by a rounding error whose sign depends on the
\* order of the terms: where the exact value is a half, either neighbour is
\* reported (<<Mira, Grog2>> against an unrecognized event type: 48; the same
\* two members in the other order: 49).
bayesOutcomes(party, encounter) ==
    LET baseChance == runBayesianAnalysis(party, encounter)
        exact == applyAdvancedModifiers(baseChance, party, encounter)
    IN  IF halfway(modifiedChance(baseChance, party, encounter))
        THEN {exact - 1, exact}
        ELSE {exact}

-----------------------------------------------------------------------------
(* page.tsx: the Monte Carlo estimator (Strategy B)                        *)

NUM_TRIALS == 1000

MAX_ROUNDS == 50

\* The values Math.random() takes in the model, in hundredths: the least
\* draw, a middle one and one above every success chance (all are < 1).
RandomDraws == {0, 50, 99}

\* The draws of one trial: one value for every hit test, one for every
\* damage roll, one for every choice of target and one for every
\* retaliation. (The puzzle and the trap draw once, their hit test.)
TrialDraws == [hit : RandomDraws, dmg : RandomDraws, pick : RandomDraws, edmg : RandomDraws]

\* Mystic Puzzle: Math.random() < min(0.95, avgIntellect / 25), with
\* avgIntellect = (totalWisdom + totalMana) / (party.length * 2).
\* An empty party makes avgIntellect NaN, and the comparison false.
puzzleSucceeds(party, draw) ==
    /\ Len(party) > 0
    /\ draw < 95
    /\ draw * 25 * (Len(party) * 2) < 100 * (Total(party, "wisdom") + Total(party, "mana"))

\* Ancient Trap: Math.random() < min(0.95, avgFinesse / 28), with
\* avgFinesse = (totalDexterity + totalAgility) / (party.length * 2)
trapSucceeds(party, draw) ==
    /\ Len(party) > 0
    /\ draw < 95
    /\ draw * 28 * (Len(party) * 2) < 100 * (Total(party, "dexterity") + Total(party, "agility"))

\* effectiveness of one character as [num, den]: the weighted mean of
\* strength, agility, dexterity, mana and wisdom (health has no part in it)
effectiveness(character, weights) ==
    [num |-> character.strength * weights.strength
             + character.agility * weights.agility
             + Opt(character, "dexterity") * weights.dexterity
             + Opt(character, "mana") * weights.mana
             + Opt(character, "wisdom") * weights.wisdom,
     den |-> weights.strength + weights.agility + weights.dexterity
             + weights.mana + weights.wisdom]

\* Math.random() < Math.min(0.95, 0.2 + effectiveness / 25)
attackHits(character, weights, draw) ==
    LET e == effectiveness(character, weights)
    IN  draw < 95 /\ draw * 25 * e.den < 20 * 25 * e.den + 100 * e.num

\* attackDamage without the base of 5: Math.floor(Math.random() * (effectiveness / 2))
attackDamageWithoutBase(character, weights, draw) ==
    LET e == effectiveness(character, weights)
    IN  MathFloor(draw * e.num, 200 * e.den)

\* Math.floor(5 + Math.random() * (effectiveness / 2))
attackDamage(character, weights, draw) ==
    LET e == effectiveness(character, weights)
    IN  MathFloor(5 * 200 * e.den + draw * e.num, 200 * e.den)

\* Math.floor(5 + (encounter.enemy.health / 20) * Math.random())
enemyDamage(encounter, draw) ==
    MathFloor(5 * 2000 + encounter.enemy.health * draw, 2000)

\* partyHealth.map((h, i) => (h > 0 ? i : -1)).filter((i) => i !== -1),
\* as the increasing sequence of the indices of the living members
RECURSIVE activeFrom(_, _)
activeFrom(partyHealth, i) ==
    IF i > Len(partyHealth) THEN <<>>
    ELSE (IF partyHealth[i] > 0 THEN <<i>> ELSE <<>>) \o activeFrom(partyHealth, i + 1)

\* activePartyMembers without the filter: every member, alive or not
allPartyMembers(partyHealth) == [i \in 1..Len(partyHealth) |-> i]

activePartyMembers(partyHealth) == activeFrom(partyHealth, 1)

\* activePartyMembers[Math.floor(Math.random() * activePartyMembers.length)]
targetIndex(active, draw) == active[MathFloor(draw * Len(active), 100) + 1]

\* The attack phase of one round, from member i on: enemyHealth after it.
\* Every living member rolls, also after the enemy fell.
RECURSIVE attackPhase(_, _, _, _, _, _)
attackPhase(party, weights, partyHealth, enemyHealth, i, draws) ==
    IF i > Len(party) THEN enemyHealth
    ELSE IF partyHealth[i] > 0 /\ attackHits(party[i], weights, draws.hit)
      THEN attackPhase(party, weights, partyHealth,
                       enemyHealth - attackDamage(party[i], weights, draws.dmg),
                       i + 1, draws)
    ELSE attackPhase(party, weights, partyHealth, enemyHealth, i + 1, draws)

\* The enemy's retaliation on a party with a living member: partyHealth
\* after it
retaliation(encounter, partyHealth, draws) ==
    [partyHealth EXCEPT ![targetIndex(activePartyMembers(partyHealth), draws.pick)] =
                            @ - enemyDamage(encounter, draws.edmg)]

AllDown(partyHealth) == \A i \in 1..Len(partyHealth) : partyHealth[i] <= 0

\* The loop of the Dragon Fight / default case from round `round` on
RECURSIVE simulateRounds(_, _, _, _, _, _, _)
simulateRounds(party, encounter, weights, enemyHealth, partyHealth, round, draws) ==
    IF round >= MAX_ROUNDS THEN enemyHealth <= 0
    ELSE LET afterAttack == attackPhase(party, weights, partyHealth, enemyHealth, 1, draws)
         IN  IF afterAttack <= 0 THEN TRUE
             ELSE IF Len(activePartyMembers(partyHealth)) = 0 THEN FALSE
             ELSE LET afterHit == retaliation(encounter, partyHealth, draws)
                  IN  IF AllDown(afterHit) THEN FALSE
                      ELSE simulateRounds(party, encounter, weights, afterAttack,
                                          afterHit, round + 1, draws)

\* simulateSingleEncounter, given the draws of the trial
simulateSingleEncounter(party, encounter, draws) ==
    CASE encounter.event_type = "Mystic Puzzle" -> puzzleSucceeds(party, draws.hit)
      [] encounter.event_type = "Ancient Trap" -> trapSucceeds(party, draws.hit)
      [] OTHER ->
           simulateRounds(party, encounter, getStatWeights(encounter.event_type),
                          encounter.enemy.health,
                          [i \in 1..Len(party) |-> party[i].health], 0, draws)

\* The numbers of trials won that the model follows up, out of 0..NUM_TRIALS:
\* both ends and the counts on either side of a rounding step or of a
\* threshold of the narrator
WinCounts == {0, 4, 5, 394, 395, 404, 405, 500, 754, 755, 764, 765, 994, 995, 1000}

\* The numbers of wins the NUM_TRIALS independent trials can add up to
possibleWins(party, encounter) ==
    LET outcomes == {simulateSingleEncounter(party, encounter, d) : d \in TrialDraws}
    IN  {wins \in WinCounts :
            /\ wins > 0 => TRUE \in outcomes
            /\ wins < NUM_TRIALS => FALSE \in outcomes}

\* Faulty variant of runMonteCarloSimulation: the number of wins returned
\* without the division by NUM_TRIALS
runMonteCarloSimulationUnscaled(wins) == MathRound(wins * 100, 1)

\* runMonteCarloSimulation, given the number of trials won
runMonteCarloSimulation(wins) == MathRound(wins * 100, NUM_TRIALS)

-----------------------------------------------------------------------------
(* part_002: the external model                                            *)

\* The values the loaded model predicts in the model, in thousandths
Predictions == {0, 123, 500, 877, 1000}

\* getTFJSAnalysis without a model: the default value
MODEL_DEFAULT == 50

\* Math.round(successChanceArray[0] * 100)
tfjsSuccessChance(prediction) == MathRound(prediction * 100, 1000)

-----------------------------------------------------------------------------
(* The requests of the model                                               *)

Grog == [name |-> "Grog", type |-> "Barbarian", strength |-> 25, agility |-> 10,
         health |-> 25, mana |-> 5, dexterity |-> 10, wisdom |-> 5]

Mira == [name |-> "Mira", type |-> "Mage", strength |-> 5, agility |-> 10,
         health |-> 5, mana |-> 25, dexterity |-> 10, wisdom |-> 25]

\* A Rogue sent without the optional stats
Finn == [name |-> "Finn", type |-> "Rogue", strength |-> 10, agility |-> 25,
         health |-> 5]

Max == [name |-> "Max", type |-> "Bandit", strength |-> 80, agility |-> 80,
        health |-> 80, mana |-> 80, dexterity |-> 80, wisdom |-> 80]

Tiny == [name |-> "Tiny", type |-> "Rogue", strength |-> 1, agility |-> 1,
         health |-> 1, mana |-> 1, dexterity |-> 1, wisdom |-> 1]

\* A second member called Grog: names are not unique within a party
Grog2 == [name |-> "Grog", type |-> "Bandit", strength |-> 15, agility |-> 20,
          health |-> 15, mana |-> 5, dexterity |-> 20, wisdom |-> 5]

Roster == {Grog, Mira, Finn, Max, Tiny, Grog2}

Parties == UNION {[1..n -> Roster] : n \in 0..MaxParty}

\* getEnemyHealth of the page that builds the request
getEnemyHealth(eventName) ==
    CASE eventName = "Dragon Fight" -> 250
      [] eventName = "Ancient Trap" -> 150
      [] OTHER -> 100

Encounters ==
    {[event_type |-> e, enemy |-> [name |-> "Foe", health |-> getEnemyHealth(e)]] :
        e \in EventTypes}

Revisions == {"part001", "part003", "page", "route", "part002"}

\* The JSON bodies: complete ones, with and without current_turn_character,
\* and ones that lack party, encounter or both
Bodies ==
    {[party |-> p, encounter |-> e, current_turn_character |-> "Grog"] :
        p \in Parties, e \in Encounters}
    \cup {[party |-> p, encounter |-> e] :
             p \in {q \in Parties : Len(q) <= 1}, e \in Encounters}
    \cup {[party |-> <<Grog>>, current_turn_character |-> "Grog"],
          [party |-> <<Grog>>],
          [current_turn_character |-> "Grog"],
          <<>>}
    \cup {[encounter |-> e, current_turn_character |-> "Grog"] : e \in Encounters}
    \cup {[encounter |-> e] : e \in Encounters}

\* A request: the revision that serves it, whether request.json() parses
\* the payload, and the parsed body
Requests ==
    {[rev |-> r, parses |-> TRUE, body |-> b] : r \in Revisions, b \in Bodies}
    \cup {[rev |-> r, parses |-> FALSE, body |-> <<>>] : r \in Revisions}

NoRequest == [rev |-> "none", parses |-> FALSE, body |-> <<>>]

NoResponse == [status |-> 0]

\* No simulation is running: the locals of runMonteCarloSimulation and of
\* simulateSingleEncounter do not exist
NoTrial == [at |-> "none", count |-> 0, wins |-> 0, round |-> 0, index |-> 0,
            enemyHealth |-> 0, partyHealth |-> <<>>, result |-> FALSE]

-----------------------------------------------------------------------------
(* The POST handlers                                                       *)

\* Faulty variant of missingFields: current_turn_character required as well
missingFieldsOrTurn(body) ==
    \/ ~("party" \in DOMAIN body)
    \/ ~("encounter" \in DOMAIN body)
    \/ ~("current_turn_character" \in DOMAIN body)

\* !body.party || !body.encounter (an empty array is truthy)
missingFields(body) ==
    ~("party" \in DOMAIN body) \/ ~("encounter" \in DOMAIN body)

\* !body.party || !body.encounter || !body.current_turn_character
missingFieldsWithTurn(body) ==
    \/ missingFields(body)
    \/ ~("current_turn_character" \in DOMAIN body)
    \/ body.current_turn_character = ""

\* Faulty variant of badRequest: { status: 400 } left out, so the status is 200
badRequestDefaultStatus(message) == [status |-> 200, error |-> message]

badRequest(message) == [status |-> 400, error |-> message]

\* Faulty variant of serverError: the message of the exception sent along
serverErrorWithDetails ==
    [status |-> 500, error |-> "Failed to analyze party composition",
     details |-> "TypeError: Reduce of empty array with no initial value"]

\* The catch block of every revision
serverError == [status |-> 500, error |-> "Failed to analyze party composition"]

success(analysis) == [status |-> 200, success |-> TRUE, analysis |-> analysis]

\* The components that run when analyzePartyVsEncounter is called (the
\* action recommender runs once per character, so not for an empty party)
componentsRun(party) ==
    {"analyzePartyVsEncounter", "estimator", "rates", "narrator"}
    \cup (IF Len(party) > 0 THEN {"recommender"} ELSE {})

\* The state after construction: the module of part_002 has started loading
\* its model, no request is being served.
Init ==
    /\ model = "pending"
    /\ pc = "idle"
    /\ req = NoRequest
    /\ pending = <<>>
    /\ resp = NoResponse
    /\ steps = {}
    /\ trial = NoTrial

\* part_002, lines 50-60: tf.loadLayersModel resolves and model is set
LoadModelResolves ==
    /\ model = "pending"
    /\ model' = "loaded"
    /\ UNCHANGED <<pc, req, pending, resp, steps, trial>>

\* part_002, lines 50-60: the load throws; the error is logged and model
\* stays unset for good
LoadModelRejects ==
    /\ model = "pending"
    /\ model' = "failed"
    /\ UNCHANGED <<pc, req, pending, resp, steps, trial>>

\* A client posts a request; the handler awaits request.json()
Receive ==
    /\ pc = "idle"
    /\ \E r \in Requests : req' = r
    /\ pc' = "parsing"
    /\ UNCHANGED <<model, pending, resp, steps, trial>>

\* The handler returns its response
Finish(response, ran) ==
    /\ resp' = response
    /\ steps' = ran
    /\ pc' = "done"
    /\ pending' = <<>>
    /\ UNCHANGED <<model, req, trial>>

\* What the revisions built on getWeightedAnalysis do with an estimate: the
\* narrator throws on an empty party, and the catch block answers
FinishWeighted(party, encounter, chance) ==
    IF generateRecommendationsThrows(party, encounter.event_type)
    THEN Finish(serverError, componentsRun(party))
    ELSE Finish(success(analysisResult(party, encounter.event_type, chance)),
                componentsRun(party))

\* POST of route.ts
PostRoute ==
    /\ pc = "parsing" /\ req.rev = "route"
    /\ IF ~req.parses THEN Finish(serverError, {})
       ELSE IF missingFields(req.body)
         THEN Finish(badRequest("Missing required fields: party, encounter"), {})
       ELSE \E chance \in bayesOutcomes(req.body.party, req.body.encounter) :
              FinishWeighted(req.body.party, req.body.encounter, chance)

\* POST of part_003
PostPart003 ==
    /\ pc = "parsing" /\ req.rev = "part003"
    /\ IF ~req.parses THEN Finish(serverError, {})
       ELSE IF missingFieldsWithTurn(req.body)
         THEN Finish(badRequest(
                "Missing required fields: party, encounter, current_turn_character"), {})
       ELSE IF generateRecommendationsThrows(req.body.party,
                                             req.body.encounter.event_type)
         THEN Finish(serverError, componentsRun(req.body.party))
       ELSE Finish(success(analyzePart003(req.body.party, req.body.encounter,
                                          req.body.current_turn_character)),
                   componentsRun(req.body.party))

\* POST of part_001
PostPart001 ==
    /\ pc = "parsing" /\ req.rev = "part001"
    /\ IF ~req.parses THEN Finish(serverError, {})
       ELSE IF missingFieldsWithTurn(req.body)
         THEN Finish(badRequest(
                "Missing required fields: party, encounter, current_turn_character"), {})
       ELSE Finish(success(analyzePart001(req.body.party, req.body.encounter,
                                          req.body.current_turn_character)),
                   componentsRun(req.body.party))

\* POST of the route kept in page.tsx: the trials are random, so the number
\* of wins is any number the trials can add up to
PostPage ==
    /\ pc = "parsing" /\ req.rev = "page"
    /\ IF ~req.parses THEN Finish(serverError, {})
       ELSE IF missingFields(req.body)
         THEN Finish(badRequest("Missing required fields: party, encounter"), {})
       ELSE \E wins \in possibleWins(req.body.party, req.body.encounter) :
              FinishWeighted(req.body.party, req.body.encounter,
                             runMonteCarloSimulation(wins))

\* POST of part_002 with getTFJSAnalysis predicting whether or not the model
\* has been set
PostPart002WithoutModelCheck ==
    /\ pc = "parsing" /\ req.rev = "part002"
    /\ IF ~req.parses THEN Finish(serverError, {})
       ELSE IF missingFields(req.body)
         THEN Finish(badRequest("Missing required fields: party, encounter"), {})
       ELSE /\ \E prediction \in Predictions : pending' = <<prediction>>
            /\ pc' = "predicting"
            /\ steps' = {"analyzePartyVsEncounter", "estimator"}
            /\ UNCHANGED <<model, req, resp, trial>>

\* POST of part_002 up to its await in getTFJSAnalysis: without a model the
\* default value is used at once, with one the handler awaits the prediction
PostPart002 ==
    /\ pc = "parsing" /\ req.rev = "part002"
    /\ IF ~req.parses THEN Finish(serverError, {})
       ELSE IF missingFields(req.body)
         THEN Finish(badRequest("Missing required fields: party, encounter"), {})
       ELSE IF model # "loaded"
         THEN FinishWeighted(req.body.party, req.body.encounter, MODEL_DEFAULT)
       ELSE /\ \E prediction \in Predictions : pending' = <<prediction>>
            /\ pc' = "predicting"
            /\ steps' = {"analyzePartyVsEncounter", "estimator"}
            /\ UNCHANGED <<model, req, resp, trial>>

\* part_002: prediction.data() resolves and the handler finishes
ResumePart002 ==
    /\ pc = "predicting"
    /\ FinishWeighted(req.body.party, req.body.encounter,
                      tfjsSuccessChance(pending[1]))

\* The response is delivered; nothing of the request is kept
Deliver ==
    /\ pc = "done"
    /\ pc' = "idle"
    /\ req' = NoRequest
    /\ resp' = NoResponse
    /\ steps' = {}
    /\ UNCHANGED <<model, pending, trial>>

Next ==
    \/ LoadModelResolves
    \/ LoadModelRejects
    \/ Receive
    \/ PostRoute
    \/ PostPart003
    \/ PostPart001
    \/ PostPage
    \/ PostPart002
    \/ ResumePart002
    \/ Deliver

Spec == Init /\ [][Next]_vars

-----------------------------------------------------------------------------
(* route.ts alone, on larger parties and on characters around the          *)
(* thresholds of the action recommender                                    *)

MaxSquad == 4

Classes == {"Barbarian", "Mage", "Rogue", "Bandit"}

asClass(character, class) == [character EXCEPT !.type = class]

\* The Barbarian sheet as a Barbarian, a Mage and a Rogue, and Max the Bandit
SquadMembers == {asClass(Grog, class) : class \in Classes \ {Max.type}} \cup {Max}

Squads == UNION {[1..n -> SquadMembers] : n \in 1..MaxSquad}

\* The values on either side of the tests > 15 and > 10
ThresholdValues == {10, 11, 15, 16}

Probes ==
    {[name |-> "Probe", type |-> "Rogue", health |-> 10, strength |-> sheet.strength,
      agility |-> sheet.agility, mana |-> sheet.mana,
      dexterity |-> sheet.dexterity, wisdom |-> sheet.wisdom] :
        sheet \in [strength : ThresholdValues, agility : ThresholdValues,
                   mana : ThresholdValues, dexterity : ThresholdValues,
                   wisdom : ThresholdValues]}

\* The values around STAT_THRESHOLD = 22, and those whose penalty is just
\* below, at and above the cap of 0.3 (59, 60 and 61 points over)
PenaltyValues == {22, 23, 81, 82, 83}

PenaltyProbes ==
    {[name |-> "Probe", type |-> "Rogue", health |-> 10, strength |-> value,
      agility |-> 10, mana |-> 10, dexterity |-> 10, wisdom |-> 22] :
        value \in PenaltyValues}

\* Stat values at and below 0: the handler checks no range of the stats
RateValues == {-10, -1, 0}

\* Characters whose six stats all carry one of these values, and one with a
\* negative strength whose weighted sum is positive all the same
RateProbes ==
    {[name |-> "Probe", type |-> "Rogue", health |-> value, strength |-> value,
      agility |-> value, mana |-> value, dexterity |-> value, wisdom |-> value] :
        value \in RateValues}
    \cup {[name |-> "Probe", type |-> "Rogue", health |-> 30, strength |-> -5,
           agility |-> 0, mana |-> 0, dexterity |-> 0, wisdom |-> 0]}

RouteRequests ==
    {[rev |-> "route", parses |-> TRUE, body |-> [party |-> p, encounter |-> e]] :
        p \in Squads \cup {<<c>> : c \in Probes \cup PenaltyProbes \cup RateProbes}, e \in Encounters}

\* A client posts one of these requests to route.ts
ReceiveRoute ==
    /\ pc = "idle"
    /\ \E r \in RouteRequests : req' = r
    /\ pc' = "parsing"
    /\ UNCHANGED <<model, pending, resp, steps, trial>>

RouteNext ==
    \/ ReceiveRoute
    \/ PostRoute
    \/ Deliver

RouteSpec == Init /\ [][RouteNext]_vars

-----------------------------------------------------------------------------
(* page.tsx, one trial at a time: runMonteCarloSimulation and the loop of  *)
(* simulateSingleEncounter in steps, every Math.random() a draw of its own *)

\* The trials of one simulation that are followed step by step, out of
\* NUM_TRIALS; the later ones run like these
MaxTrials == 2

\* A member whose health is 0 when the analysis is asked for
Down == [name |-> "Down", type |-> "Rogue", strength |-> 20, agility |-> 20,
         health |-> 0, mana |-> 5, dexterity |-> 20, wisdom |-> 5]

\* A member who outlasts MAX_ROUNDS rounds and whose every hit does 5
Tank == [name |-> "Tank", type |-> "Barbarian", strength |-> 0, agility |-> 0,
         health |-> 260]

\* A member sent with a strength below 0: no range is checked
Hex == [name |-> "Hex", type |-> "Mage", strength |-> -4, agility |-> 0,
        health |-> 30]

foe(eventType, health) == [event_type |-> eventType, enemy |-> [name |-> "Foe", health |-> health]]

\* The requests whose simulation is followed: the dragon and an encounter
\* of no known type as the page sends them, a weak enemy against the Tank,
\* Hex, and one puzzle and one trap
TrialBodies ==
    {[party |-> p, encounter |-> e] :
        p \in {<<>>, <<Grog>>, <<Down>>, <<Grog, Mira>>, <<Down, Grog>>, <<Max>>},
        e \in {foe("Dragon Fight", getEnemyHealth("Dragon Fight")),
               foe("Haunted Crypt", getEnemyHealth("Haunted Crypt"))}}
    \cup {[party |-> <<Tank>>, encounter |-> foe("Haunted Crypt", 19)],
          [party |-> <<Hex>>, encounter |-> foe("Haunted Crypt", getEnemyHealth("Haunted Crypt"))],
          [party |-> <<Mira>>, encounter |-> foe("Mystic Puzzle", getEnemyHealth("Mystic Puzzle"))],
          [party |-> <<Finn>>, encounter |-> foe("Ancient Trap", getEnemyHealth("Ancient Trap"))]}

TrialRequests == {[rev |-> "page", parses |-> TRUE, body |-> b] : b \in TrialBodies}

\* Whether the trial is the loop of the Dragon Fight / default case
CombatTrial(encounter) == encounter.event_type \notin {"Mystic Puzzle", "Ancient Trap"}

\* startTrial on pools that outlive the trial: from the second trial on the
\* pools are those the trial before has left
startTrialOnSharedPools(body, count, wins) ==
    [at |-> IF Len(body.party) = 0 THEN "check" ELSE "attack",
     count |-> count, wins |-> wins, round |-> 0, index |-> 1,
     enemyHealth |-> IF count = 1 THEN body.encounter.enemy.health
                     ELSE trial.enemyHealth,
     partyHealth |-> IF count = 1
                     THEN [i \in 1..Len(body.party) |-> body.party[i].health]
                     ELSE trial.partyHealth,
     result |-> FALSE]

\* simulateSingleEncounter is entered for trial number count: enemyHealth and
\* partyHealth are new locals, copied from the request
startTrial(body, count, wins) ==
    [at |-> IF Len(body.party) = 0 THEN "check" ELSE "attack",
     count |-> count, wins |-> wins, round |-> 0, index |-> 1,
     enemyHealth |-> body.encounter.enemy.health,
     partyHealth |-> [i \in 1..Len(body.party) |-> body.party[i].health],
     result |-> FALSE]

\* return result
returned(state, result) == [state EXCEPT !.at = "returned", !.result = result]

\* A call of simulateSingleEncounter: the puzzle and the trap return after
\* their one draw, the other cases enter the loop
BeginTrial(count, wins) ==
    LET body == req.body
    IN  IF body.encounter.event_type = "Mystic Puzzle"
        THEN \E draw \in RandomDraws :
               trial' = returned(startTrial(body, count, wins),
                                 puzzleSucceeds(body.party, draw))
        ELSE IF body.encounter.event_type = "Ancient Trap"
        THEN \E draw \in RandomDraws :
               trial' = returned(startTrial(body, count, wins),
                                 trapSucceeds(body.party, draw))
        ELSE trial' = startTrial(body, count, wins)

\* A client posts one of these requests to the route of page.tsx
ReceiveTrial ==
    /\ pc = "idle"
    /\ \E r \in TrialRequests : req' = r
    /\ pc' = "parsing"
    /\ UNCHANGED <<model, pending, resp, steps, trial>>

\* POST, lines 4279-4300, down to the first trial of runMonteCarloSimulation
BeginSimulation ==
    /\ pc = "parsing" /\ req.rev = "page"
    /\ req.parses /\ ~missingFields(req.body)
    /\ pc' = "simulating"
    /\ BeginTrial(1, 0)
    /\ UNCHANGED <<model, req, pending, resp, steps>>

\* The trial after the member at trial.index has had its turn
afterTurn(enemyHealth) ==
    [trial EXCEPT !.enemyHealth = enemyHealth,
                  !.index = @ + 1,
                  !.at = IF trial.index + 1 > Len(req.body.party)
                         THEN "check" ELSE "attack"]

\* The callback of party.forEach for one member, lines 1317-1337: a member
\* at 0 or below returns at once, another one rolls the hit and, on a hit,
\* the damage. (The return on enemyHealth <= 0 ends this callback only.)
AttackStep ==
    /\ pc = "simulating" /\ trial.at = "attack"
    /\ LET character == req.body.party[trial.index]
           weights == getStatWeights(req.body.encounter.event_type)
       IN  IF trial.partyHealth[trial.index] <= 0
           THEN trial' = afterTurn(trial.enemyHealth)
           ELSE \E hit \in RandomDraws :
                  IF attackHits(character, weights, hit)
                  THEN \E dmg \in RandomDraws :
                         trial' = afterTurn(trial.enemyHealth
                                            - attackDamage(character, weights, dmg))
                  ELSE trial' = afterTurn(trial.enemyHealth)
    /\ UNCHANGED <<model, pc, req, pending, resp, steps>>

\* CheckStep without the test of the enemy's health: the enemy retaliates
\* although it is down
CheckStepWithoutWin ==
    /\ pc = "simulating" /\ trial.at = "check"
    /\ trial' = IF Len(activePartyMembers(trial.partyHealth)) = 0
                  THEN returned(trial, FALSE)
                ELSE [trial EXCEPT !.at = "retaliate"]
    /\ UNCHANGED <<model, pc, req, pending, resp, steps>>

\* Lines 1339-1344: the enemy is down, or nobody is left to be hit
CheckStep ==
    /\ pc = "simulating" /\ trial.at = "check"
    /\ trial' = IF trial.enemyHealth <= 0 THEN returned(trial, TRUE)
                ELSE IF Len(activePartyMembers(trial.partyHealth)) = 0
                  THEN returned(trial, FALSE)
                ELSE [trial EXCEPT !.at = "retaliate"]
    /\ UNCHANGED <<model, pc, req, pending, resp, steps>>

\* RetaliateStep with the end of the loop counted as a win
RetaliateStepTimeoutWins ==
    /\ pc = "simulating" /\ trial.at = "retaliate"
    /\ \E pick \in RandomDraws, edmg \in RandomDraws :
         LET afterHit == retaliation(req.body.encounter, trial.partyHealth,
                                     [hit |-> 0, dmg |-> 0, pick |-> pick, edmg |-> edmg])
             hit == [trial EXCEPT !.partyHealth = afterHit]
         IN  trial' = IF AllDown(afterHit) THEN returned(hit, FALSE)
                      ELSE IF trial.round + 1 >= MAX_ROUNDS
                        THEN returned([hit EXCEPT !.round = @ + 1], TRUE)
                      ELSE [hit EXCEPT !.round = @ + 1, !.index = 1, !.at = "attack"]
    /\ UNCHANGED <<model, pc, req, pending, resp, steps>>

\* Lines 1346-1357: the enemy hits one living member; the party is wiped
\* out, or the next round begins, or the loop ends after MAX_ROUNDS rounds
\* and line 1358 returns enemyHealth <= 0
RetaliateStep ==
    /\ pc = "simulating" /\ trial.at = "retaliate"
    /\ \E pick \in RandomDraws, edmg \in RandomDraws :
         LET afterHit == retaliation(req.body.encounter, trial.partyHealth,
                                     [hit |-> 0, dmg |-> 0, pick |-> pick, edmg |-> edmg])
             hit == [trial EXCEPT !.partyHealth = afterHit]
         IN  trial' = IF AllDown(afterHit) THEN returned(hit, FALSE)
                      ELSE IF trial.round + 1 >= MAX_ROUNDS
                        THEN returned([hit EXCEPT !.round = @ + 1],
                                      trial.enemyHealth <= 0)
                      ELSE [hit EXCEPT !.round = @ + 1, !.index = 1, !.at = "attack"]
    /\ UNCHANGED <<model, pc, req, pending, resp, steps>>

\* The number of wins once the trial has returned: if (...) wins++
winsAfter(state) == state.wins + (IF state.result THEN 1 ELSE 0)

\* runMonteCarloSimulation, lines 1368-1372: the next trial
NextTrial ==
    /\ pc = "simulating" /\ trial.at = "returned"
    /\ trial.count < MaxTrials
    /\ BeginTrial(trial.count + 1, winsAfter(trial))
    /\ UNCHANGED <<model, pc, req, pending, resp, steps>>

\* The trials followed are over; the locals are gone with the call
StopFollowing ==
    /\ pc = "simulating" /\ trial.at = "returned"
    /\ trial.count >= MaxTrials
    /\ pc' = "idle"
    /\ req' = NoRequest
    /\ trial' = NoTrial
    /\ UNCHANGED <<model, pending, resp, steps>>

TrialNext ==
    \/ ReceiveTrial
    \/ BeginSimulation
    \/ AttackStep
    \/ CheckStep
    \/ RetaliateStep
    \/ NextTrial
    \/ StopFollowing

TrialSpec == Init /\ [][TrialNext]_vars

-----------------------------------------------------------------------------
(* Properties                                                              *)

\* The request in flight carries a party and an encounter
HasPartyAndEncounter == req.parses /\ {"party", "encounter"} \subseteq DOMAIN req.body

HasTurnCharacter == "current_turn_character" \in DOMAIN req.body

\* A response with an analysis has been produced for the request in flight
Analysed == pc = "done" /\ resp.status = 200

NonEmptyParty == HasPartyAndEncounter /\ Len(req.body.party) > 0

EmptyParty == HasPartyAndEncounter /\ Len(req.body.party) = 0

KnownEventTypes == {"Dragon Fight", "Ancient Trap", "Mystic Puzzle"}

RatesOf(analysis) ==
    {analysis.individual_success_rates[i].success_rate :
        i \in 1..Len(analysis.individual_success_rates)}

\* C1: for every non-empty party and every event type the reported
\* party_success_chance is an integer from 0 to 100, under the weighted-sum
\* estimator (part_003), the Monte Carlo estimator (page.tsx) and the Naive
\* Bayes estimator with modifiers (route.ts); such a request is answered
\* with an analysis.
C1_ChanceIsPercent ==
    (/\ pc = "done" /\ NonEmptyParty
     /\ \/ req.rev \in {"page", "route"}
        \/ HasTurnCharacter /\ req.rev = "part003")
    => /\ resp.status = 200
       /\ resp.analysis.party_success_chance \in 0..100

C1_Witness ==
    /\ Analysed /\ NonEmptyParty /\ req.rev = "page"
    /\ resp.analysis.party_success_chance = 100

\* C2: analysing an empty party never throws and never yields NaN: the
\* answer is a client error or a result with a defined percentage, never a
\* server error.
C2_EmptyPartyGuarded ==
    (pc = "done" /\ EmptyParty /\ HasTurnCharacter)
    => /\ resp.status # 500
       /\ resp.status = 200 => ~IsNaN(resp.analysis.party_success_chance)

\* C3, as claimed: every percentage of an analysis of a non-empty party
\* (party_success_chance and every success_rate) is strictly between 0 and
\* 100, under every estimator.
C3_StrictlyInside ==
    (Analysed /\ NonEmptyParty)
    => /\ resp.analysis.party_success_chance \in 1..99
       /\ RatesOf(resp.analysis) \subseteq 1..99

\* C3, amended: party_success_chance of a non-empty party is from 0 to 100
\* under every estimator, and strictly between 0 and 100 under the
\* estimators that clamp it (part_001, part_003, route.ts); the Monte Carlo
\* estimator and the external model can report exactly 0 or 100. Every
\* success_rate is strictly between 0 and 100.
C3_InsideWhereClamped ==
    (Analysed /\ NonEmptyParty)
    => /\ resp.analysis.party_success_chance \in 0..100
       /\ req.rev \in {"part001", "part003", "route"}
            => resp.analysis.party_success_chance \in 1..99
       /\ RatesOf(resp.analysis) \subseteq 1..99

\* Finn alone, with neither wisdom nor mana, wins no trial of the puzzle
C3_Witness ==
    /\ Analysed /\ req.rev = "page"
    /\ req.body.party = <<Finn>>
    /\ req.body.encounter.event_type = "Mystic Puzzle"
    /\ resp.analysis.party_success_chance = 0

\* C4: a request whose body lacks party or encounter is answered with status
\* 400 and an error, and no part of the analysis ever runs for it.
C4_MissingFieldsRejected ==
    (req.parses /\ ~({"party", "encounter"} \subseteq DOMAIN req.body))
    => /\ pc \in {"parsing", "done"}
       /\ steps = {}
       /\ pc = "done" => /\ resp.status = 400
                         /\ DOMAIN resp = {"status", "error"}

C4_Witness ==
    /\ pc = "done" /\ req.parses /\ req.rev = "route"
    /\ "party" \in DOMAIN req.body /\ ~("encounter" \in DOMAIN req.body)
    /\ resp.status = 400

\* C5, as claimed: a request with party and encounter but without
\* current_turn_character is never rejected with status 400; with a
\* non-empty party it is answered with an analysis.
C5_TurnCharacterOptional ==
    (pc = "done" /\ NonEmptyParty /\ ~HasTurnCharacter)
    => resp.status = 200

\* C5, amended: route.ts, part_002 and the route of page.tsx analyse a request
\* without current_turn_character (status 200 for a non-empty party), while
\* part_001 and part_003 reject it with status 400; where the field is read
\* (part_001, part_003), its value changes no field of the analysis.
C5_TurnCharacterOptionalLater ==
    /\ (pc = "done" /\ NonEmptyParty /\ ~HasTurnCharacter)
       => IF req.rev \in {"part001", "part003"}
          THEN resp = [status |-> 400, error |->
                 "Missing required fields: party, encounter, current_turn_character"]
          ELSE resp.status = 200
    /\ (Analysed /\ NonEmptyParty /\ HasTurnCharacter /\ req.rev = "part003")
       => resp.analysis = analyzePart003(req.body.party, req.body.encounter, "Mira")
    /\ (Analysed /\ NonEmptyParty /\ HasTurnCharacter /\ req.rev = "part001")
       => resp.analysis = analyzePart001(req.body.party, req.body.encounter, "Mira")

C5_Witness ==
    /\ Analysed /\ NonEmptyParty /\ ~HasTurnCharacter /\ req.rev = "route"

\* C6: when request.json() or the analysis throws, the answer is status 500
\* with the generic error and nothing else; success: true is answered only
\* when the whole analysis ran without throwing.
C6_ThrowGivesGenericError ==
    pc = "done"
    => /\ ~req.parses => resp.status = 500
       /\ (EmptyParty /\ HasTurnCharacter /\ req.rev # "part001"
             /\ req.body.encounter.event_type \in KnownEventTypes)
            => resp.status = 500
       /\ resp.status = 500
            => resp = [status |-> 500, error |-> "Failed to analyze party composition"]
       /\ "success" \in DOMAIN resp
            => /\ resp.status = 200 /\ resp.success
               /\ HasPartyAndEncounter
               /\ {"analyzePartyVsEncounter", "estimator", "rates", "narrator"}
                    \subseteq steps
               /\ \/ Len(req.body.party) > 0
                  \/ req.rev = "part001"
                  \/ ~(req.body.encounter.event_type \in KnownEventTypes)

C6_Witness ==
    /\ pc = "done" /\ EmptyParty /\ req.rev = "route"
    /\ resp.status = 500 /\ "narrator" \in steps

\* C7: a request served by part_002 while its model is not available is not
\* answered with an ordinary success: the answer is a server error or is
\* marked as a fallback.
C7_NoSilentFallback ==
    (pc = "done" /\ req.rev = "part002" /\ NonEmptyParty /\ model = "failed")
    => \/ resp.status = 500
       \/ "fallback" \in DOMAIN resp
       \/ resp.status = 200 /\ "fallback" \in DOMAIN resp.analysis

\* The party with every absent optional stat sent as 0
zeroFilled(party) ==
    [i \in 1..Len(party) |->
        [s \in DOMAIN party[i] \cup {"mana", "dexterity", "wisdom"} |->
            IF s \in DOMAIN party[i] THEN party[i][s] ELSE 0]]

\* C8: in route.ts a party with absent optional stats gets exactly the
\* analysis of the same party with those stats sent as 0.
C8_AbsentIsZero ==
    (Analysed /\ NonEmptyParty /\ req.rev = "route")
    => \E chance \in bayesOutcomes(zeroFilled(req.body.party), req.body.encounter) :
         resp.analysis =
           analysisResult(zeroFilled(req.body.party), req.body.encounter.event_type,
                          chance)

\* Whether r is Math.round(min(hi, max(lo, num/den))), for den > 0
IsRoundedClamp(r, num, den, lo, hi) ==
    LET c == IF num < lo * den THEN lo * den
             ELSE IF num > hi * den THEN hi * den
             ELSE num
    IN  (2 * r - 1) * den <= 2 * c /\ 2 * c < (2 * r + 1) * den

\* Whether r is round(clamp(20 + (sum of stat*weight / (total_weight*15)) * 75 * m, 15, 95))
IsWeightedRate(r, character, eventType) ==
    LET w == getStatWeights(eventType)
        sumW == w.strength + w.agility + w.health + w.mana + w.dexterity + w.wisdom
        power == SumSeq([k \in 1..Len(Stats) |-> Opt(character, Stats[k]) * w[Stats[k]]])
        den == sumW * 15 * 100
    IN  IsRoundedClamp(r, 20 * den + power * 75 * getDifficultyMultiplier(eventType),
                       den, 15, 95)

\* Whether r is round(clamp((strength + agility + health + mana) / 4 * m, 10, 90))
IsLegacyRate(r, character, eventType) ==
    IsRoundedClamp(r, (character.strength + character.agility + character.health
                         + Opt(character, "mana"))
                      * legacyDifficultyMultiplier(eventType),
                   400, 10, 90)

\* C9, as claimed: every success_rate of a non-empty party is an integer
\* from 15 to 95, equal to
\* round(clamp(20 + (sum of stat*weight / (total_weight*15)) * 75 * m, 15, 95)).
C9_RateByWeightedFormula ==
    (Analysed /\ NonEmptyParty)
    => \A i \in 1..Len(req.body.party) :
         LET r == resp.analysis.individual_success_rates[i].success_rate
         IN  /\ r \in 15..95
             /\ IsWeightedRate(r, req.body.party[i], req.body.encounter.event_type)

\* C9, amended: the above holds in route.ts, part_002, part_003 and
\* page.tsx; in part_001 every success_rate is an integer from 10 to 90, equal
\* to round(clamp((strength + agility + health + mana) / 4 * m, 10, 90)) with
\* m the multiplier of part_001 (0.6, 0.8, 1.0, default 0.8).
C9_RateByRevisionFormula ==
    (Analysed /\ NonEmptyParty)
    => \A i \in 1..Len(req.body.party) :
         LET r == resp.analysis.individual_success_rates[i].success_rate
             character == req.body.party[i]
             eventType == req.body.encounter.event_type
         IN  IF req.rev = "part001"
             THEN r \in 10..90 /\ IsLegacyRate(r, character, eventType)
             ELSE r \in 15..95 /\ IsWeightedRate(r, character, eventType)

C9_Witness ==
    /\ Analysed /\ NonEmptyParty /\ req.rev = "part001"
    /\ 10 \in RatesOf(resp.analysis)

\* C10: individual_success_rates has one entry per character of the party,
\* entry i carrying the name of character i, also when names repeat.
C10_OneRatePerCharacter ==
    (Analysed /\ HasPartyAndEncounter)
    => /\ Len(resp.analysis.individual_success_rates) = Len(req.body.party)
       /\ \A i \in 1..Len(req.body.party) :
            resp.analysis.individual_success_rates[i].character = req.body.party[i].name

C10_Witness ==
    /\ Analysed /\ HasPartyAndEncounter /\ Len(req.body.party) = 2
    /\ req.body.party[1].name = req.body.party[2].name
    /\ req.body.party[1] # req.body.party[2]
    /\ resp.analysis.individual_success_rates[1].success_rate
         # resp.analysis.individual_success_rates[2].success_rate

\* C11: an unrecognized event type is no error. For every non-empty party
\* route.ts and the route of page.tsx answer with an analysis built on the
\* default tables: all six weights 1.0, multiplier 0.95, label "Unknown",
\* priors 0.5/0.5, action "Take Action"; the Monte Carlo estimator runs the
\* combat simulation.
C11_UnknownEventUsesDefaults ==
    (/\ NonEmptyParty /\ req.rev \in {"route", "page"}
     /\ ~(req.body.encounter.event_type \in KnownEventTypes))
    => LET party == req.body.party
           encounter == req.body.encounter
           eventType == encounter.event_type
           ones == [s \in StatSet |-> 10]
       IN  /\ (pc = "parsing" /\ req.rev = "page")
                => \A d \in TrialDraws :
                     simulateSingleEncounter(party, encounter, d)
                       = simulateRounds(party, encounter, ones,
                                        encounter.enemy.health,
                                        [i \in 1..Len(party) |-> party[i].health],
                                        0, d)
           /\ pc = "done"
                => /\ resp.status = 200
                   /\ getStatWeights(eventType) = ones
                   /\ getDifficultyMultiplier(eventType) = 95
                   /\ getSuccessPriors(eventType) = [success |-> 50, failure |-> 50]
                   /\ resp.analysis.encounter_difficulty = "Unknown"
                   /\ \A i \in 1..Len(party) :
                        LET entry == resp.analysis.individual_success_rates[i]
                            sum == party[i].strength + party[i].agility
                                   + party[i].health + Opt(party[i], "mana")
                                   + Opt(party[i], "dexterity")
                                   + Opt(party[i], "wisdom")
                        IN  /\ entry.recommended_action = "Take Action"
                            /\ IsRoundedClamp(entry.success_rate,
                                              20 * 9000 + sum * 75 * 95, 9000, 15, 95)
                   /\ req.rev = "route"
                        => resp.analysis.party_success_chance \in 5..95
                   /\ req.rev = "page"
                        => resp.analysis.party_success_chance \in 0..100

C11_Witness ==
    /\ Analysed /\ req.rev = "page"
    /\ req.body.party = <<Mira, Finn>>
    /\ req.body.encounter.event_type = "Haunted Crypt"
    /\ resp.analysis.encounter_difficulty = "Unknown"

\* The one-to-one maps of 1..n onto itself
Perms(n) == {f \in [1..n -> 1..n] : \A i, j \in 1..n : f[i] = f[j] => i = j}

permuted(seq, f) == [i \in 1..Len(seq) |-> seq[f[i]]]

\* C12: under part_003 (Strategy A) and route.ts (Strategy C) the party in any
\* other order gets the same party_success_chance, and the same
\* individual_success_rates in the new order.
C12_OrderOfPartyIrrelevant ==
    (Analysed /\ NonEmptyParty /\ req.rev \in {"route", "part003"})
    => \A f \in Perms(Len(req.body.party)) :
         LET other == permuted(req.body.party, f)
             eventType == req.body.encounter.event_type
         IN  other # req.body.party
             => /\ req.rev = "route"
                     => bayesOutcomes(other, req.body.encounter)
                          = {resp.analysis.party_success_chance}
                /\ req.rev = "part003"
                     => weightedSuccessChance(other, eventType)
                          = resp.analysis.party_success_chance
                /\ individualRates(other, eventType)
                     = permuted(resp.analysis.individual_success_rates, f)

\* The decision tree of the action recommender, as the design states it
decisionTree(character, eventType) ==
    LET strength == Opt(character, "strength")
        agility == Opt(character, "agility")
        mana == Opt(character, "mana")
        dexterity == Opt(character, "dexterity")
        wisdom == Opt(character, "wisdom")
        first(choices) ==
            choices[CHOOSE i \in 1..Len(choices) :
                      /\ choices[i][1]
                      /\ \A j \in 1..(i - 1) : ~choices[j][1]][2]
    IN  IF eventType = "Dragon Fight"
        THEN first(<< <<strength > 15, "Power Attack">>, <<mana > 15, "Cast Fireball">>,
                      <<agility > 15, "Dodge and Weave">>, <<TRUE, "Defensive Stance">> >>)
        ELSE IF eventType = "Ancient Trap"
        THEN first(<< <<dexterity > 15, "Disarm Trap">>,
                      <<wisdom > 15, "Analyze Mechanism">>,
                      <<agility > 15, "Evade Pressure Plate">>,
                      <<TRUE, "Provide Lookout">> >>)
        ELSE IF eventType = "Mystic Puzzle"
        THEN first(<< <<wisdom > 15, "Decipher Runes">>, <<mana > 15, "Channel Insight">>,
                      <<dexterity > 10, "Manipulate Artifact">>,
                      <<TRUE, "Observe Patterns">> >>)
        ELSE "Take Action"

\* C13: the recommended_action of every character is the label of the fixed
\* decision tree, with strict comparisons (a stat of exactly 15, or a
\* dexterity of exactly 10, passes no test), and depends on nothing but the
\* five stats and the event type.
C13_ActionIsDecisionTree ==
    (Analysed /\ NonEmptyParty)
    => \A i \in 1..Len(req.body.party) :
         resp.analysis.individual_success_rates[i].recommended_action
           = decisionTree(req.body.party[i], req.body.encounter.event_type)

\* A strength of exactly 15 does not make a Power Attack
C13_Witness ==
    /\ Analysed /\ NonEmptyParty
    /\ req.body.encounter.event_type = "Dragon Fight"
    /\ req.body.party[1].strength = 15 /\ req.body.party[1].mana = 16
    /\ resp.analysis.individual_success_rates[1].recommended_action = "Cast Fireball"

\* The tier the narrator's first sentence belongs to, as the design states it
toneTier(p) ==
    IF ~IsNaN(p) /\ p < 40 THEN "caution"
    ELSE IF ~IsNaN(p) /\ p > 75 THEN "advantage"
    ELSE "balanced"

\* The tier of the first sentence of part_001's narrator
legacyTier(p) ==
    IF ~IsNaN(p) /\ p < 30 THEN "retreat"
    ELSE IF ~IsNaN(p) /\ p < 60 THEN "caution"
    ELSE "confident"

\* The positions of the tone sentences of a list of recommendations
tonePositions(recommendations) ==
    {i \in 1..Len(recommendations) : recommendations[i][1] = "tone"}

\* C14 as stated: for every non-empty party the recommendations start with
\* the one tone sentence chosen by the chance (below 40 caution, above 75
\* advantage, otherwise balanced, 40 and 75 included), and no later sentence
\* is a tone sentence.
C14_OneToneSentenceFirst ==
    (Analysed /\ NonEmptyParty)
    => LET recommendations == resp.analysis.strategic_recommendations
       IN  /\ Len(recommendations) >= 1
           /\ recommendations[1]
                = <<"tone", toneTier(resp.analysis.party_success_chance)>>
           /\ tonePositions(recommendations) = {1}

\* C14 amended: that holds in every revision but part_001, whose narrator
\* has the thresholds 30 and 60 and, below 60, puts a second general sentence
\* after the first.
C14_OneToneSentenceFirstLater ==
    (Analysed /\ NonEmptyParty)
    => LET recommendations == resp.analysis.strategic_recommendations
           p == resp.analysis.party_success_chance
       IN  /\ Len(recommendations) >= 1
           /\ req.rev # "part001"
                => /\ recommendations[1] = <<"tone", toneTier(p)>>
                   /\ tonePositions(recommendations) = {1}
           /\ req.rev = "part001"
                => /\ recommendations[1] = <<"tone", legacyTier(p)>>
                   /\ tonePositions(recommendations)
                        = IF legacyTier(p) = "confident" THEN {1} ELSE {1, 2}

\* A chance of exactly 40 gets the balanced sentence, followed by others
C14_Witness ==
    /\ Analysed /\ NonEmptyParty
    /\ req.rev # "part001"
    /\ resp.analysis.party_success_chance = 40
    /\ resp.analysis.strategic_recommendations[1] = <<"tone", "balanced">>
    /\ Len(resp.analysis.strategic_recommendations) > 1

\* The kinds of the sentences of a list of recommendations, in order
kindsOf(recommendations) ==
    [i \in 1..Len(recommendations) |-> recommendations[i][1]]

\* Whether the request is answered by the narrator of route.ts (part_003,
\* the page.tsx route and part_002 carry the same function)
NarratorOfRoute == req.rev \in {"route", "part003", "page", "part002"}

\* C15 as stated: for every non-empty party and every event type, the
\* unrecognized ones included, the tone sentence is followed by one or two
\* encounter-specific sentences, so that the list has two or three elements.
C15_OneOrTwoSpecificSentences ==
    (Analysed /\ NonEmptyParty /\ NarratorOfRoute)
    => Len(resp.analysis.strategic_recommendations) \in {2, 3}

\* C15 amended: that holds for the three known event types (Dragon Fight
\* always has its two sentences, Ancient Trap and Mystic Puzzle one or two);
\* for an unrecognized event type the tone sentence stands alone.
C15_SpecificSentencesForKnownTypes ==
    (Analysed /\ NonEmptyParty /\ NarratorOfRoute)
    => LET kinds == kindsOf(resp.analysis.strategic_recommendations)
           eventType == req.body.encounter.event_type
       IN  /\ eventType = "Dragon Fight"
                => kinds = <<"tone", "tank", "damage dealer">>
           /\ eventType = "Ancient Trap"
                => kinds \in {<<"tone", "lead">>, <<"tone", "lead", "support">>}
           /\ eventType = "Mystic Puzzle"
                => kinds \in {<<"tone", "puzzle solver">>,
                              <<"tone", "puzzle solver", "clue-finder">>}
           /\ eventType \notin KnownEventTypes => kinds = <<"tone">>

\* Two members, one of them best at both stats of the trap: two sentences
C15_Witness ==
    /\ Analysed /\ NonEmptyParty /\ NarratorOfRoute
    /\ Len(req.body.party) = 2
    /\ req.body.encounter.event_type = "Ancient Trap"
    /\ Len(resp.analysis.strategic_recommendations) = 2

\* Base chances handed to applyAdvancedModifiers: the ends of [0, 100], the
\* ends of the clamp and values whose product with a multiplier crosses them
BaseChances == {0, 1, 4, 5, 7, 50, 76, 87, 95, 100}

\* C16: applyAdvancedModifiers returns a whole number from 5 to 95 for every
\* base chance in [0, 100], every party and every event type, whatever the
\* synergy multiplier and the diminishing-returns penalty are.
C16_ModifiersStayClamped ==
    (Analysed /\ NonEmptyParty /\ req.rev = "route")
    => /\ resp.analysis.party_success_chance \in 5..95
       /\ \A b \in BaseChances : \A party \in {req.body.party, <<>>} :
            applyAdvancedModifiers([num |-> BigOf(b), den |-> BigOf(1)],
                                   party, req.body.encounter) \in 5..95

\* An all-Barbarian party against the puzzle: the multiplier 0.7 would take
\* a base chance of 5 down to 3.5, and the floor holds it at 5
C16_Witness ==
    /\ Analysed /\ NonEmptyParty /\ req.rev = "route"
    /\ req.body.encounter.event_type = "Mystic Puzzle"
    /\ Len(req.body.party) = MaxSquad
    /\ getSynergyMultiplier(req.body.party, req.body.encounter) = 70
    /\ applyAdvancedModifiers([num |-> BigOf(5), den |-> BigOf(1)],
                              req.body.party, req.body.encounter) = 5
    /\ resp.analysis.party_success_chance = 5

\* Whether two parties carry the same sheets member by member, classes aside
sameSheets(party, other) ==
    /\ Len(party) = Len(other)
    /\ \A i \in 1..Len(party) : asClass(party[i], "Rogue") = asClass(other[i], "Rogue")

\* C17: against Mystic Puzzle under the Naive Bayes estimator, four members
\* with the Barbarian sheet, all Barbarians, get a strictly lower
\* party_success_chance than the same four sheets under mixed classes for
\* which no synergy rule fires.
C17_AllBarbarianStrictlyLower ==
    (/\ Analysed /\ req.rev = "route"
     /\ req.body.encounter.event_type = "Mystic Puzzle"
     /\ req.body.party = [i \in 1..4 |-> Grog])
    => \A mixed \in Squads :
         (/\ sameSheets(mixed, req.body.party)
          /\ getSynergyMultiplier(mixed, req.body.encounter) = 100)
         => \A chance \in bayesOutcomes(mixed, req.body.encounter) :
              resp.analysis.party_success_chance < chance

\* Whether a sentence of the given kind is among the recommendations
hasSentence(recommendations, kind) ==
    \E i \in 1..Len(recommendations) : recommendations[i][1] = kind

\* C18: the 'support' sentence of Ancient Trap (the 'clue-finder' sentence of
\* Mystic Puzzle) is there exactly when the member best at the second stat
\* is another member of the party than the one best at the first stat, also
\* when two members share a name.
C18_SecondSentenceIffOtherMember ==
    (Analysed /\ NonEmptyParty /\ NarratorOfRoute)
    => LET party == req.body.party
           recommendations == resp.analysis.strategic_recommendations
       IN  /\ req.body.encounter.event_type = "Ancient Trap"
                => (hasSentence(recommendations, "support")
                      <=> findBest(party, "wisdom") # findBest(party, "dexterity"))
           /\ req.body.encounter.event_type = "Mystic Puzzle"
                => (hasSentence(recommendations, "clue-finder")
                      <=> findBest(party, "mana") # findBest(party, "wisdom"))

\* The first member in party order among those with the highest value of a
\* stat, an absent stat counting as 0
firstHighest(party, stat) ==
    CHOOSE i \in 1..Len(party) :
        /\ \A j \in 1..Len(party) : Opt(party[j], stat) <= Opt(party[i], stat)
        /\ \A j \in 1..(i - 1) : Opt(party[j], stat) < Opt(party[i], stat)

\* The sentences of a kind among the recommendations
sentencesOf(recommendations, kind) ==
    {recommendations[i] : i \in {j \in 1..Len(recommendations) :
                                   recommendations[j][1] = kind}}

\* The stat whose best member a kind of sentence names
StatOfKind ==
    [tank |-> "health", lead |-> "dexterity", support |-> "wisdom"]
    @@ ("damage dealer" :> "strength") @@ ("puzzle solver" :> "wisdom")
    @@ ("clue-finder" :> "mana")

\* C19: every sentence of the narrator that names a best member names the
\* first member in party order among those with the highest value of the
\* stat (absent counts as 0): the best is replaced only by a strictly
\* greater value.
C19_FirstOfTheBestIsNamed ==
    (Analysed /\ NonEmptyParty /\ NarratorOfRoute)
    => \A kind \in DOMAIN StatOfKind :
         sentencesOf(resp.analysis.strategic_recommendations, kind)
           \subseteq {<<kind, req.body.party[firstHighest(req.body.party,
                                                           StatOfKind[kind])].name>>}

\* Two members of different names tie in dexterity: the first one leads
C19_Witness ==
    /\ Analysed /\ NonEmptyParty /\ NarratorOfRoute
    /\ req.body.encounter.event_type = "Ancient Trap"
    /\ Len(req.body.party) = 2
    /\ req.body.party[1].name # req.body.party[2].name
    /\ Opt(req.body.party[1], "dexterity") = Opt(req.body.party[2], "dexterity")
    /\ resp.analysis.strategic_recommendations[2] = <<"lead", req.body.party[1].name>>

\* 1 when the condition holds and 0 otherwise
Indicator(condition) == IF condition THEN 1 ELSE 0

\* The synergy multiplier as the design states it, in hundredths, from the
\* set of classes present and the event type alone
synergyOfClasses(classes, eventType) ==
    100 + 10 * Indicator({"Barbarian", "Mage"} \subseteq classes)
        + 15 * Indicator({"Barbarian", "Mage", "Rogue"} \subseteq classes)
        + 20 * Indicator(eventType = "Ancient Trap"
                         /\ {"Rogue", "Bandit"} \subseteq classes)
        - 25 * Indicator(eventType = "Dragon Fight" /\ classes \subseteq {"Mage"})
        - 30 * Indicator(eventType = "Mystic Puzzle"
                         /\ classes \subseteq {"Barbarian", "Bandit"})

\* C20: getSynergyMultiplier is 1.0 + 0.10 [Barbarian and Mage present]
\* + 0.15 [Barbarian, Mage and Rogue present] + 0.20 [Ancient Trap, Rogue
\* and Bandit present] - 0.25 [Dragon Fight, all Mage] - 0.30 [Mystic
\* Puzzle, all Barbarian or Bandit]: a function of the set of classes
\* present and of the event type alone.
C20_SynergyIsSumOfRules ==
    (Analysed /\ NonEmptyParty /\ req.rev = "route")
    => \A party \in {req.body.party, <<>>} :
         getSynergyMultiplier(party, req.body.encounter)
           = synergyOfClasses({class \in Classes :
                                 \E i \in 1..Len(party) : party[i].type = class},
                              req.body.encounter.event_type)

\* All four classes against the trap: the three bonuses add up to 1.45
C20_Witness ==
    /\ Analysed /\ NonEmptyParty /\ req.rev = "route"
    /\ req.body.encounter.event_type = "Ancient Trap"
    /\ partyClasses(req.body.party) = Classes
    /\ getSynergyMultiplier(req.body.party, req.body.encounter) = 145

\* S of the penalty: the sum over all members and all six stats of
\* max(0, stat - 22)
excessOver22(party) ==
    SumSeq([i \in 1..Len(party) |->
              SumSeq([k \in 1..Len(Stats) |->
                        IF Opt(party[i], Stats[k]) > 22
                        THEN Opt(party[i], Stats[k]) - 22 ELSE 0])])

\* 1 - min(0.30, 0.005 * S), in thousandths
keptThousandths(party) ==
    1000 - (IF 5 * excessOver22(party) < 300 THEN 5 * excessOver22(party) ELSE 300)

\* C21: applyDiminishingReturns multiplies the chance by
\* 1 - min(0.30, 0.005 * S): the result is never above the chance, never
\* below 70% of it, and is the chance itself when no stat exceeds 22 (a stat
\* of exactly 22 costs nothing).
C21_DiminishingReturnsCapped ==
    (Analysed /\ NonEmptyParty /\ req.rev = "route")
    => LET party == req.body.party
           keep == keptThousandths(party)
           base == runBayesianAnalysis(party, req.body.encounter)
       IN  /\ applyDiminishingReturns(base, party)
                = [num |-> BigTimes(base.num, keep), den |-> BigTimes(base.den, 1000)]
           /\ \A b \in BaseChances :
                LET after == applyDiminishingReturns(
                                 [num |-> BigOf(b), den |-> BigOf(1)], party)
                IN  /\ after.den = BigOf(1000)
                    /\ after.num = BigOf(b * keep)
                    /\ b * keep <= b * 1000
                    /\ b * keep >= b * 700
           /\ (\A i \in 1..Len(party) : \A k \in 1..Len(Stats) :
                 Opt(party[i], Stats[k]) <= 22) => keep = 1000

\* A stat of 83 alone is 61 points over: 30.5% is cut down to the cap of 30%
C21_Witness ==
    /\ Analysed /\ NonEmptyParty /\ req.rev = "route"
    /\ Len(req.body.party) = 1
    /\ req.body.party[1].strength = 83 /\ req.body.party[1].wisdom = 22
    /\ applyDiminishingReturns([num |-> BigOf(50), den |-> BigOf(1)], req.body.party)
         = [num |-> BigOf(35000), den |-> BigOf(1000)]

\* Values a difficulty multiplier may take, in hundredths: those of the
\* tables and a lower one
DifficultyValues == {50, 85, 90, 95, 100}

\* C22 as stated: the difficulty multiplier reaches the individual rates
\* only; under route.ts and under part_003 party_success_chance is what the
\* estimator yields under any other value of the multiplier.
C22_MultiplierOnlyInRates ==
    (Analysed /\ NonEmptyParty /\ req.rev \in {"route", "part003"})
    => /\ req.rev = "route"
            => resp.analysis.party_success_chance
                 \in bayesOutcomes(req.body.party, req.body.encounter)
       /\ req.rev = "part003"
            => \A m \in DifficultyValues :
                 resp.analysis.party_success_chance
                   = weightedSuccessChanceWith(req.body.party,
                                               req.body.encounter.event_type, m)

\* C22 amended: that holds for the Naive Bayes estimate of route.ts; the
\* weighted estimate of part_003 is the clamped rate times the multiplier of
\* the event type, rounded.
C22_MultiplierOnlyInRatesOfRoute ==
    (Analysed /\ NonEmptyParty /\ req.rev \in {"route", "part003"})
    => LET eventType == req.body.encounter.event_type
       IN  /\ req.rev = "route"
                => resp.analysis.party_success_chance
                     \in bayesOutcomes(req.body.party, req.body.encounter)
           /\ req.rev = "part003"
                => resp.analysis.party_success_chance
                     = weightedSuccessChanceWith(req.body.party, eventType,
                                                 getDifficultyMultiplier(eventType))

\* route.ts against a Dragon Fight: the rates carry the multiplier 0.85, the
\* chance is the estimate as it is
C22_Witness ==
    /\ Analysed /\ NonEmptyParty /\ req.rev = "route"
    /\ req.body.encounter.event_type = "Dragon Fight"
    /\ req.body.party = <<Max>>
    /\ resp.analysis.party_success_chance
         # MathRound(resp.analysis.party_success_chance
                       * getDifficultyMultiplier("Dragon Fight"), 100)
    /\ resp.analysis.individual_success_rates[1].success_rate
         = charSuccessRate(Max, "Dragon Fight")

\* A trial of the Dragon Fight / default case is running
InCombat == pc = "simulating" /\ CombatTrial(req.body.encounter)

\* C23: within a round of a Dragon Fight / default trial the outcome is
\* decided in a fixed order. After the attack phase an enemy at 0 or below
\* makes the trial return true, before any retaliation; otherwise the trial
\* returns false in that round if no member is alive before the retaliation
\* or all members are at 0 or below after it.
C23_WinBeforeRetaliation ==
    [][InCombat =>
         /\ trial.at = "attack"
              => /\ trial'.at \in {"attack", "check"}
                 /\ trial'.partyHealth = trial.partyHealth
         /\ (trial.at = "check" /\ trial.enemyHealth <= 0)
              => trial' = returned(trial, TRUE)
         /\ (trial.at = "check" /\ trial.enemyHealth > 0 /\ AllDown(trial.partyHealth))
              => trial' = returned(trial, FALSE)
         /\ (trial.at = "check" /\ trial.enemyHealth > 0 /\ ~AllDown(trial.partyHealth))
              => trial'.at = "retaliate"
         /\ trial.at = "retaliate"
              => /\ trial.enemyHealth > 0
                 /\ AllDown(trial'.partyHealth)
                      => /\ trial'.at = "returned" /\ ~trial'.result
                         /\ trial'.round = trial.round]_vars

\* The enemy fell in a round at whose end its hardest blow would have
\* wiped out the party: the trial is won all the same
C23_Witness ==
    /\ InCombat /\ trial.at = "returned" /\ trial.result
    /\ trial.enemyHealth <= 0
    /\ ~AllDown(trial.partyHealth)
    /\ \A i \in 1..Len(trial.partyHealth) :
         trial.partyHealth[i] <= enemyDamage(req.body.encounter, 99)

\* How far a running trial has come: the rounds done, and within the round
\* the members who had their turn, the tests and the retaliation
progress(state, partySize) ==
    state.round * (partySize + 3)
    + (CASE state.at = "attack" -> state.index
         [] state.at = "check" -> partySize + 1
         [] state.at = "retaliate" -> partySize + 2
         [] OTHER -> 0)

\* C24: every Dragon Fight / default trial is over after at most 50 rounds,
\* whatever the draws are: the round counter never passes 50, every step of
\* a running trial takes it further, and a trial that comes to the end of
\* round 50 with neither side eliminated returns false, the enemy being
\* still alive.
C24_FiftyRoundsThenLoss ==
    /\ [](InCombat
            => /\ trial.round <= MAX_ROUNDS
               /\ trial.at # "returned" => trial.round < MAX_ROUNDS
               /\ (trial.at = "returned" /\ trial.round = MAX_ROUNDS)
                    => (~trial.result /\ trial.enemyHealth > 0))
    /\ [][(InCombat /\ trial.at # "returned" /\ trial'.at # "returned")
            => progress(trial', Len(req.body.party))
                 > progress(trial, Len(req.body.party))]_vars

\* A trial that ran out of rounds: the member is alive, and so is the enemy
C24_Witness ==
    /\ InCombat /\ trial.at = "returned"
    /\ trial.round = MAX_ROUNDS
    /\ ~AllDown(trial.partyHealth)
    /\ trial.enemyHealth > 0
    /\ ~trial.result

\* The members whose pool the step has changed
struck == {i \in 1..Len(trial.partyHealth) : trial'.partyHealth[i] # trial.partyHealth[i]}

\* C25: in every round of a Dragon Fight / default trial a member at 0 or
\* below, one who came with a health of 0 or below included, does not roll
\* and so leaves the enemy's pool as it is, and the enemy's retaliation goes
\* to a member who is above 0 at that moment.
C25_OnlyTheLivingTakePart ==
    [][InCombat =>
         /\ (trial.at = "attack" /\ trial.partyHealth[trial.index] <= 0)
              => trial'.enemyHealth = trial.enemyHealth
         /\ trial.at = "retaliate"
              => \E i \in 1..Len(trial.partyHealth) :
                   /\ trial.partyHealth[i] > 0
                   /\ struck = {i}]_vars

\* Down came at 0: rounds later Down is still at 0 and it is Grog who has
\* been hit
C25_Witness ==
    /\ InCombat /\ req.body.party = <<Down, Grog>>
    /\ trial.round >= 2 /\ trial.at = "attack" /\ trial.index = 2
    /\ trial.partyHealth[1] = 0
    /\ trial.partyHealth[2] > 0 /\ trial.partyHealth[2] < Grog.health

\* A trial has just been entered: no round is done and nobody has had a turn
TrialJustStarted ==
    /\ InCombat /\ trial.round = 0
    /\ \/ trial.at = "attack" /\ trial.index = 1
       \/ trial.at = "check" /\ Len(req.body.party) = 0

InRound == InCombat /\ trial.at \in {"attack", "check", "retaliate"}

\* The pools do not grow, and a retaliation takes at least 5 from one
\* living member and nothing from the others
poolsShrink ==
    /\ trial'.enemyHealth <= trial.enemyHealth
    /\ \A i \in 1..Len(trial.partyHealth) : trial'.partyHealth[i] <= trial.partyHealth[i]
    /\ trial.at = "retaliate"
         => \E i \in 1..Len(trial.partyHealth) :
              /\ trial.partyHealth[i] > 0
              /\ trial'.partyHealth[i] <= trial.partyHealth[i] - 5
              /\ \A j \in 1..Len(trial.partyHealth) \ {i} :
                   trial'.partyHealth[j] = trial.partyHealth[j]

\* The member whose turn it is has hit the enemy
hasHit == trial.at = "attack" /\ trial'.enemyHealth # trial.enemyHealth

ReachesModel == req.rev = "part002" /\ req.parses /\ ~missingFields(req.body)

\* C27: the model of part_002 is set at most once, by the load started when
\* the module is loaded, and is never touched again once the load has
\* resolved or thrown; a request reaching getTFJSAnalysis while the model is
\* unset (load pending or failed) is answered at once, with a
\* party_success_chance of 50 in every analysis it reports; a request
\* reaching it after the load has succeeded awaits the prediction and every
\* analysis it reports carries round(100 * prediction); after a failed load
\* no analysis of part_002 carries anything but 50.
C27_ModelLoadedOnce ==
    /\ [](model \in {"pending", "loaded", "failed"})
    /\ []((model = "failed" /\ pc = "done" /\ ReachesModel /\ resp.status = 200)
            => resp.analysis.party_success_chance = MODEL_DEFAULT)
    /\ []((pc = "predicting") => (model = "loaded" /\ ReachesModel))
    /\ [][/\ (model # "pending") => (model' = model)
          /\ (pc = "parsing" /\ pc' # pc /\ ReachesModel)
               => IF model = "loaded"
                    THEN pc' = "predicting" /\ resp' = NoResponse
                    ELSE /\ pc' = "done"
                         /\ resp'.status = 200
                              => resp'.analysis.party_success_chance = MODEL_DEFAULT
          /\ (pc = "predicting" /\ pc' # pc)
               => /\ pc' = "done"
                  /\ resp'.status = 200
                       => resp'.analysis.party_success_chance
                            = tfjsSuccessChance(pending[1])]_vars

\* A request answered with the default 50 after the load has failed
C27_Witness ==
    /\ model = "failed" /\ pc = "done" /\ ReachesModel
    /\ resp.status = 200
    /\ resp.analysis.party_success_chance = MODEL_DEFAULT
    /\ Len(req.body.party) > 0

\* A request answered with the model's prediction, here 0.877 reported as 88
C27_WitnessLoaded ==
    /\ model = "loaded" /\ pc = "done" /\ ReachesModel
    /\ resp.status = 200
    /\ resp.analysis.party_success_chance = 88

\* round(bound * difficultyMultiplier) for a bound of the clamp of part_003
scaledBound(bound, eventType) ==
    MathRound(bound * getDifficultyMultiplier(eventType), 100)

\* C29: every party_success_chance reported by part_003 lies between
\* round(15 * m) and round(95 * m) for the multiplier m of the encounter's
\* event type, so between 13 and 81 for Dragon Fight, and is 95 only for
\* Mystic Puzzle.
C29_ClampBeforeMultiplier ==
    (pc = "done" /\ req.rev = "part003" /\ resp.status = 200)
      => LET chance == resp.analysis.party_success_chance
             eventType == req.body.encounter.event_type
         IN  /\ ~IsNaN(chance)
             /\ chance >= scaledBound(15, eventType)
             /\ chance <= scaledBound(95, eventType)
             /\ (eventType = "Dragon Fight") => (chance >= 13 /\ chance <= 81)
             /\ (chance = 95) => (eventType = "Mystic Puzzle")

\* The six stats of a character as the rate formula reads them
statsNonNegative(character) == \A s \in StatSet : Opt(character, s) >= 0

\* C30: in every analysis of route.ts a character whose six stats are all
\* >= 0 has a success_rate of at least 20, whatever the event type, and a
\* success_rate below 20 (the lower clamp bound 15 included) is reported only
\* for a character whose weighted stat sum is negative.
C30_RateAtLeastBase ==
    (pc = "done" /\ req.rev = "route" /\ resp.status = 200)
      => \A i \in 1..Len(req.body.party) :
           LET character == req.body.party[i]
               rate == resp.analysis.individual_success_rates[i].success_rate
               sum == charTotalWeighted(character,
                          getStatWeights(req.body.encounter.event_type))
           IN  /\ statsNonNegative(character) => rate >= 20
               /\ rate < 20 => sum < 0
               /\ rate >= 15

\* A character with all stats 0 is reported at exactly 20
C30_Witness ==
    /\ pc = "done" /\ req.rev = "route" /\ resp.status = 200
    /\ Len(req.body.party) = 1
    /\ statsNonNegative(req.body.party[1])
    /\ req.body.party[1].strength = 0
    /\ resp.analysis.individual_success_rates[1].success_rate = 20

\* A character with a negative weighted sum held at the lower bound 15
C30_WitnessClamped ==
    /\ pc = "done" /\ req.rev = "route" /\ resp.status = 200
    /\ Len(req.body.party) = 1
    /\ req.body.party[1].strength = -10
    /\ resp.analysis.individual_success_rates[1].success_rate = 15

====
